---- MODULE Spec2Model ----
(***************************************************************************)
(* A model of samuel/go-ldap: the client multiplexer (ldap/client.go) and  *)
(* the per-connection server dispatcher (srvClient.serve/processRequest).  *)
(***************************************************************************)
EXTENDS Integers, Sequences, FiniteSets, TLC

(***************************************************************************)
(* Bounds of the model.                                                    *)
(***************************************************************************)
\* how many message IDs the callers of one Client allocate in a run
MaxRequests == 2
\* how many SearchResultEntry / unexpected packets the peer sends in a run
MaxEntries == 2
\* how many packets one server connection reads in a run
MaxSrvRequests == 2
\* how many results a Backend.Search returns at most
MaxResults == 2
\* the message IDs a client of the server uses
MaxMsgID == 2
\* connections a listener accepts
MaxConns == 2
\* failed calls of Accept counted for one call of Serve
MaxClosedAccepts == 2

(***************************************************************************)
(* Program constants.                                                      *)
(***************************************************************************)
\* a counter that starts one lower than NewClient's
InitMsgID_off == 1 - 1
\* NewClient: msgID: 1
InitMsgID == 1
\* make(chan packetError, 1)
ChanCap == 1
\* make(chan chan struct{}, 1)
SentinelCap == 1

\* ResultCode values used by the model (ldap.go)
ResultSuccess == 0
ResultProtocolError == 2
ResultNoSuchObject == 32
ResultInvalidCredentials == 49
ResultUnavailable == 52
ResultUnwillingToPerform == 53
ResultOther == 80

\* ldap.go
protocolVersion == 3

ApplicationBindRequest == 0
ApplicationBindResponse == 1
ApplicationUnbindRequest == 2
ApplicationSearchRequest == 3
ApplicationSearchResultEntry == 4
ApplicationSearchResultDone == 5
ApplicationModifyRequest == 6
ApplicationModifyResponse == 7
ApplicationAddRequest == 8
ApplicationAddResponse == 9
ApplicationDelRequest == 10
ApplicationDelResponse == 11
ApplicationModifyDNRequest == 12
ApplicationModifyDNResponse == 13
ApplicationCompareRequest == 14
ApplicationCompareResponse == 15
ApplicationAbandonRequest == 16
ApplicationExtendedRequest == 23
ApplicationExtendedResponse == 24

OIDCancel == "1.3.6.1.1.8"
OIDStartTLS == "1.3.6.1.4.1.1466.20037"
OIDPasswordModify == "1.3.6.1.4.1.4203.1.11.1"
OIDWhoAmI == "1.3.6.1.4.1.4203.1.11.3"

\* search.go
ScopeBaseObject == 0
ScopeSingleLevel == 1
ScopeWholeSubtree == 2

\* filter.go
filterTagAND == 0
filterTagOR == 1
filterTagNOT == 2
filterTagEqualityMatch == 3
filterTagSubstrings == 4
filterTagGreaterOrEqual == 5
filterTagLessOrEqual == 6
filterTagPresent == 7
filterTagApproxMatch == 8
filterTagExtensibleMatch == 9

(***************************************************************************)
(* BER packets as ParsePacket delivers them (ber.go).                      *)
(***************************************************************************)
ClassUniversal == 0
ClassApplication == 1
ClassContext == 2

TagBoolean == 1
TagInteger == 2
TagOctetString == 4
TagEnumerated == 10
TagUTF8String == 12
TagSequence == 16
TagSet == 17

\* Packet.Value: nil, int, bool, string or []byte
NilV == [t |-> "nil", i |-> 0, s |-> "", b |-> FALSE]
IntV(n) == [t |-> "int", i |-> n, s |-> "", b |-> FALSE]
BoolV(x) == [t |-> "bool", i |-> 0, s |-> "", b |-> x]
StrV(x) == [t |-> "string", i |-> 0, s |-> x, b |-> FALSE]
BytesV(x) == [t |-> "bytes", i |-> 0, s |-> x, b |-> FALSE]

\* NewPacket(class, primitive, tag, value), with the items added to it
NewPacket(class, primitive, tag, value, items) ==
    [class |-> class, prim |-> primitive, tag |-> tag, val |-> value, items |-> items]

\* what ParsePacket makes of the encodings a peer can send: parseValue types
\* the value of a universal primitive by its tag, the value of any other
\* primitive is its raw bytes, and a constructed packet has items and no value
WireInteger(n) == NewPacket(ClassUniversal, TRUE, TagInteger, IntV(n), <<>>)
WireEnumerated(n) == NewPacket(ClassUniversal, TRUE, TagEnumerated, IntV(n), <<>>)
WireBoolean(x) == NewPacket(ClassUniversal, TRUE, TagBoolean, BoolV(x), <<>>)
WireOctetString(x) == NewPacket(ClassUniversal, TRUE, TagOctetString, BytesV(x), <<>>)
WireUTF8String(x) == NewPacket(ClassUniversal, TRUE, TagUTF8String, StrV(x), <<>>)
WirePrimitive(class, tag, x) == NewPacket(class, TRUE, tag, BytesV(x), <<>>)
WireConstructed(class, tag, items) == NewPacket(class, FALSE, tag, NilV, items)
WireSequence(items) == WireConstructed(ClassUniversal, TagSequence, items)

\* a nil []byte: a slice that was never set, which no byte string equals
NilBytes == "[]byte(nil)"

\* Packet.Bool, Packet.Bytes, Packet.Int, Packet.Str
PacketBool(p) == [v |-> p.val.b, ok |-> p.val.t = "bool"]
PacketBytes(p) == [v |-> IF p.val.t = "bytes" THEN p.val.s ELSE "", ok |-> p.val.t = "bytes"]
PacketInt(p) == [v |-> p.val.i, ok |-> p.val.t = "int"]
PacketStr(p) ==
    IF p.val.t = "string" THEN [v |-> p.val.s, ok |-> TRUE]
    ELSE IF p.val.t = "bytes" THEN [v |-> p.val.s, ok |-> TRUE]
    ELSE [v |-> "", ok |-> FALSE]

(***************************************************************************)
(* Request parsers.  A parser returns the request, a ProtocolError with    *)
(* its text, or panics on an index out of range.                           *)
(***************************************************************************)
\* an error text; arg is the number a %d in the text formats, or -1
Text(s) == [text |-> s, arg |-> -1]
TextD(s, n) == [text |-> s, arg |-> n]

ParseOk(v) == [st |-> "ok", msg |-> Text(""), v |-> v]
ProtocolError(m) == [st |-> "ProtocolError", msg |-> m, v |-> <<>>]
InvalidBEREncodingError(m) == [st |-> "InvalidBEREncodingError", msg |-> m, v |-> <<>>]
IndexPanic == [st |-> "panic", msg |-> Text("index out of range"), v |-> <<>>]

\* parseBindRequest (bind.go)
parseBindRequest(pkt) ==
    IF Len(pkt.items) # 3
    THEN ProtocolError(Text("bind request should have 3 values"))
    ELSE IF ~PacketInt(pkt.items[1]).ok \/ PacketInt(pkt.items[1]).v # protocolVersion
    THEN ProtocolError(Text("unsupported or invalid version"))
    ELSE IF ~PacketStr(pkt.items[2]).ok
    THEN ProtocolError(Text("can't parse dn for bind request"))
    ELSE IF ~PacketBytes(pkt.items[3]).ok
    THEN ProtocolError(Text("can't parse simple password for bind request"))
    ELSE ParseOk([DN |-> PacketStr(pkt.items[2]).v,
                  Password |-> PacketBytes(pkt.items[3]).v])

\* parseDeleteRequest (delete.go)
parseDeleteRequest(pkt) ==
    IF ~PacketStr(pkt).ok
    THEN ProtocolError(Text("invalid dn"))
    ELSE ParseOk([DN |-> PacketStr(pkt).v])

\* parseModifyDNRequest (modifydn.go)
parseModifyDNRequest(pkt) ==
    IF Len(pkt.items) < 3 \/ Len(pkt.items) > 4
    THEN ProtocolError(Text("wrong number of items"))
    ELSE IF ~PacketStr(pkt.items[1]).ok
    THEN ProtocolError(Text("invalid dn"))
    ELSE IF ~PacketStr(pkt.items[2]).ok
    THEN ProtocolError(Text("invalid newrdn"))
    ELSE IF ~PacketBool(pkt.items[3]).ok
    THEN ProtocolError(Text("invalid deleteoldrdn"))
    ELSE IF Len(pkt.items) = 4 /\ ~PacketStr(pkt.items[4]).ok
    THEN ProtocolError(Text("invalid newSuperior"))
    ELSE ParseOk([DN |-> PacketStr(pkt.items[1]).v,
                  NewRDN |-> PacketStr(pkt.items[2]).v,
                  DeleteOldRDN |-> PacketBool(pkt.items[3]).v,
                  NewSuperior |-> IF Len(pkt.items) = 4
                                  THEN PacketStr(pkt.items[4]).v ELSE ""])

\* the loop of parseExtendedRequest over pkt.Items, from item i on
RECURSIVE extendedRequestItems(_, _, _)
extendedRequestItems(items, i, req) ==
    IF i > Len(items) THEN ParseOk(req)
    ELSE LET it == items[i] IN
         IF it.tag = 0
         THEN IF PacketStr(it).ok
              THEN extendedRequestItems(items, i + 1, [req EXCEPT !.Name = PacketStr(it).v])
              ELSE ProtocolError(Text("invalid extended request oid"))
         ELSE IF it.tag = 1
         THEN IF PacketBytes(it).ok
              THEN extendedRequestItems(items, i + 1, [req EXCEPT !.Value = PacketBytes(it).v])
              ELSE ProtocolError(Text("invalid extended request value"))
         ELSE ProtocolError(Text("unsupported extended request tag"))

\* parseExtendedRequest (extended.go)
parseExtendedRequest(pkt) ==
    IF Len(pkt.items) > 2
    THEN ProtocolError(Text("too many tags for extended request"))
    ELSE extendedRequestItems(pkt.items, 1, [Name |-> "", Value |-> NilBytes])

\* parsePasswordModifyRequest (extended.go), from item i on
RECURSIVE passwordModifyItems(_, _, _)
passwordModifyItems(items, i, req) ==
    IF i > Len(items) THEN ParseOk(req)
    ELSE LET it == items[i] IN
         IF it.tag = 0
         THEN IF PacketStr(it).ok
              THEN passwordModifyItems(items, i + 1, [req EXCEPT !.UserIdentity = PacketStr(it).v])
              ELSE ProtocolError(Text("invalid user identity tag"))
         ELSE IF it.tag = 1
         THEN IF PacketBytes(it).ok
              THEN passwordModifyItems(items, i + 1, [req EXCEPT !.OldPassword = PacketBytes(it).v])
              ELSE ProtocolError(Text("invalid old password tag"))
         ELSE IF it.tag = 2
         THEN IF PacketBytes(it).ok
              THEN passwordModifyItems(items, i + 1, [req EXCEPT !.NewPassword = PacketBytes(it).v])
              ELSE ProtocolError(Text("invalid new password tag"))
         ELSE ProtocolError(Text("unknown tag"))

parsePasswordModifyRequest(pkt) ==
    passwordModifyItems(pkt.items, 1,
                        [UserIdentity |-> "", OldPassword |-> NilBytes,
                         NewPassword |-> NilBytes])

\* the values of one attribute: every item must be []byte
RECURSIVE attributeValues(_, _, _)
attributeValues(items, i, vals) ==
    IF i > Len(items) THEN ParseOk(vals)
    ELSE IF PacketBytes(items[i]).ok
    THEN attributeValues(items, i + 1, Append(vals, PacketBytes(items[i]).v))
    ELSE ProtocolError(Text("invalid attribute value"))

\* the loop of parseAddRequest over pkt.Items[1].Items, from item i on;
\* req.Attributes is a map from the names to their values, and
\* req.Attributes[attrName] = vals replaces the values of a name it holds
RECURSIVE addRequestAttributes(_, _, _)
addRequestAttributes(ats, i, attrs) ==
    IF i > Len(ats) THEN ParseOk(attrs)
    ELSE LET at == ats[i] IN
         IF Len(at.items) # 2
         THEN ProtocolError(Text("invalid attribute"))
         ELSE IF ~PacketStr(at.items[1]).ok
         THEN ProtocolError(Text("invalid attribute"))
         ELSE LET vals == attributeValues(at.items[2].items, 1, <<>>) IN
              IF vals.st # "ok" THEN vals
              ELSE addRequestAttributes(ats, i + 1,
                       (PacketStr(at.items[1]).v :> vals.v) @@ attrs)

\* parseAddRequest (add.go)
parseAddRequest(pkt) ==
    IF Len(pkt.items) # 2
    THEN ProtocolError(Text("add request requires 2 items"))
    ELSE IF ~PacketStr(pkt.items[1]).ok
    THEN ProtocolError(Text("invalid dn"))
    ELSE LET attrs == addRequestAttributes(pkt.items[2].items, 1, <<>>) IN
         IF attrs.st # "ok" THEN attrs
         ELSE ParseOk([DN |-> PacketStr(pkt.items[1]).v, Attributes |-> attrs.v])

\* the loop of parseModifyRequest over pkt.Items[1].Items, from item i on
RECURSIVE modifyRequestMods(_, _, _)
modifyRequestMods(its, i, mods) ==
    IF i > Len(its) THEN ParseOk(mods)
    ELSE LET it == its[i] IN
         IF Len(it.items) # 2 \/ Len(it.items[2].items) # 2
         THEN ProtocolError(Text("mod operation requires 2 items"))
         ELSE IF ~PacketInt(it.items[1]).ok
         THEN ProtocolError(Text("invalid mod op"))
         ELSE IF ~PacketStr(it.items[2].items[1]).ok
         THEN ProtocolError(Text("invalid attribute name"))
         ELSE LET vals == attributeValues(it.items[2].items[2].items, 1, <<>>) IN
              IF vals.st # "ok" THEN vals
              ELSE modifyRequestMods(its, i + 1,
                       Append(mods, [Type |-> PacketInt(it.items[1]).v,
                                     Name |-> PacketStr(it.items[2].items[1]).v,
                                     Values |-> vals.v]))

\* parseModifyRequest (modify.go)
parseModifyRequest(pkt) ==
    IF Len(pkt.items) # 2
    THEN ProtocolError(Text("modify request requires exactly 2 items"))
    ELSE IF ~PacketStr(pkt.items[1]).ok
    THEN ProtocolError(Text("invalid dn"))
    ELSE LET mods == modifyRequestMods(pkt.items[2].items, 1, <<>>) IN
         IF mods.st # "ok" THEN mods
         ELSE ParseOk([DN |-> PacketStr(pkt.items[1]).v, Mods |-> mods.v])

\* the filters with an attribute in Items[0] and a value in Items[1]:
\* equalityMatch, greaterOrEqual, lessOrEqual, approxMatch
attributeValueFilter(pkt, kind, attrErr, valErr) ==
    IF Len(pkt.items) < 1 THEN IndexPanic
    ELSE IF ~PacketStr(pkt.items[1]).ok
    THEN ProtocolError(Text(attrErr))
    ELSE IF Len(pkt.items) < 2 THEN IndexPanic
    ELSE IF ~PacketBytes(pkt.items[2]).ok
    THEN ProtocolError(Text(valErr))
    ELSE ParseOk([kind |-> kind, Attribute |-> PacketStr(pkt.items[1]).v,
                  Value |-> PacketBytes(pkt.items[2]).v])

\* the loop of the substrings case over pkt.Items[1].Items, from item i on
RECURSIVE substringsItems(_, _, _)
substringsItems(cs, i, q) ==
    IF i > Len(cs) THEN ParseOk(q)
    ELSE LET c == cs[i] IN
         IF c.tag = 0
         THEN IF i # 1
              THEN ProtocolError(Text("search filter substrings has final as non-first child"))
              ELSE IF ~PacketStr(c).ok
              THEN ProtocolError(Text("failed to parse initial in search filter"))
              ELSE substringsItems(cs, i + 1, [q EXCEPT !.Initial = PacketStr(c).v])
         ELSE IF c.tag = 1
         THEN IF ~PacketStr(c).ok
              THEN ProtocolError(Text("failed to parse any in search filter"))
              ELSE substringsItems(cs, i + 1, [q EXCEPT !.Any = Append(@, PacketStr(c).v)])
         ELSE IF c.tag = 2
         THEN IF i # Len(cs)
              THEN ProtocolError(Text("search filter substrings has final as non-last child"))
              ELSE IF ~PacketStr(c).ok
              THEN ProtocolError(Text("failed to parse final in search filter"))
              ELSE substringsItems(cs, i + 1, [q EXCEPT !.Final = PacketStr(c).v])
         ELSE ProtocolError(TextD("unknown filter substring type %d", c.tag))

\* parseSearchFilter (filter.go)
RECURSIVE parseSearchFilter(_)
RECURSIVE searchFilterList(_, _, _)
searchFilterList(items, i, fs) ==
    IF i > Len(items) THEN ParseOk(fs)
    ELSE LET f == parseSearchFilter(items[i]) IN
         IF f.st # "ok" THEN f
         ELSE searchFilterList(items, i + 1, Append(fs, f.v))

parseSearchFilter(pkt) ==
    IF pkt.tag = filterTagAND \/ pkt.tag = filterTagOR
    THEN LET fs == searchFilterList(pkt.items, 1, <<>>) IN
         IF fs.st # "ok" THEN fs
         ELSE ParseOk([kind |-> IF pkt.tag = filterTagAND THEN "AND" ELSE "OR",
                       Filters |-> fs.v])
    ELSE IF pkt.tag = filterTagNOT
    THEN IF Len(pkt.items) < 1 THEN IndexPanic
         ELSE LET f == parseSearchFilter(pkt.items[1]) IN
              IF f.st # "ok" THEN f
              ELSE ParseOk([kind |-> "NOT", Filter |-> f.v])
    ELSE IF pkt.tag = filterTagEqualityMatch
    THEN attributeValueFilter(pkt, "EqualityMatch",
             "failed to parse equalityMatch.attribute in filter",
             "failed to parse equalityMatch.value in filter")
    ELSE IF pkt.tag = filterTagSubstrings
    THEN IF Len(pkt.items) < 1 THEN IndexPanic
         ELSE IF ~PacketStr(pkt.items[1]).ok
         THEN ProtocolError(Text("failed to parse substrings.attribute in filter"))
         ELSE IF Len(pkt.items) < 2 THEN IndexPanic
         ELSE substringsItems(pkt.items[2].items, 1,
                  [kind |-> "Substrings", Attribute |-> PacketStr(pkt.items[1]).v,
                   Initial |-> "", Any |-> <<>>, Final |-> ""])
    ELSE IF pkt.tag = filterTagGreaterOrEqual
    THEN attributeValueFilter(pkt, "GreaterOrEqual",
             "failed to parse greaterOrEqual.attribute in filter",
             "failed to parse greaterOrEqual.value in filter")
    ELSE IF pkt.tag = filterTagLessOrEqual
    THEN attributeValueFilter(pkt, "LessOrEqual",
             "failed to parse lessOrEqual.attribute in filter",
             "failed to parse lessOrEqual.value in filter")
    ELSE IF pkt.tag = filterTagPresent
    THEN IF ~PacketStr(pkt).ok
         THEN ProtocolError(Text("failed to parse present in search filter"))
         ELSE ParseOk([kind |-> "Present", Attribute |-> PacketStr(pkt).v])
    ELSE IF pkt.tag = filterTagApproxMatch
    THEN attributeValueFilter(pkt, "ApproxMatch",
             "failed to parse approxMatch.attribute in filter",
             "failed to parse approxMatch.value in filter")
    ELSE ProtocolError(TextD("unknown filter tag %d", pkt.tag))

\* the loop of parseSearchRequest over pkt.Items[7].Items: req.Attributes[s] = true
RECURSIVE searchRequestAttributes(_, _, _)
searchRequestAttributes(items, i, attrs) ==
    IF i > Len(items) THEN ParseOk(attrs)
    ELSE IF ~PacketStr(items[i]).ok
    THEN ProtocolError(Text("can't parse attribute from list for search request"))
    ELSE searchRequestAttributes(items, i + 1, attrs \cup {PacketStr(items[i]).v})

\* parseSearchRequest (search.go)
parseSearchRequest(pkt) ==
    IF Len(pkt.items) # 8
    THEN ProtocolError(Text("search request should have 8 items"))
    ELSE IF ~PacketStr(pkt.items[1]).ok
    THEN ProtocolError(Text("can't parse baseObject for search request"))
    ELSE IF ~PacketInt(pkt.items[2]).ok
    THEN ProtocolError(Text("can't parse scope for search request"))
    ELSE IF ~PacketInt(pkt.items[3]).ok
    THEN ProtocolError(Text("can't parse derefAliases for search request"))
    ELSE IF ~PacketInt(pkt.items[4]).ok
    THEN ProtocolError(Text("can't parse sizeLimit for search request"))
    ELSE IF ~PacketInt(pkt.items[5]).ok
    THEN ProtocolError(Text("can't parse sizeLimit for search request"))
    ELSE IF ~PacketBool(pkt.items[6]).ok
    THEN ProtocolError(Text("can't parse typesOnly for search request"))
    ELSE LET f == parseSearchFilter(pkt.items[7])
             attrs == searchRequestAttributes(pkt.items[8].items, 1, {})
         IN  IF f.st # "ok" THEN f
             ELSE IF attrs.st # "ok" THEN attrs
             ELSE ParseOk([BaseDN |-> PacketStr(pkt.items[1]).v,
                           Scope |-> PacketInt(pkt.items[2]).v,
                           DerefAliases |-> PacketInt(pkt.items[3]).v,
                           SizeLimit |-> PacketInt(pkt.items[4]).v,
                           TimeLimit |-> PacketInt(pkt.items[5]).v,
                           TypesOnly |-> PacketBool(pkt.items[6]).v,
                           Filter |-> f.v,
                           Attributes |-> attrs.v])

(***************************************************************************)
(* The server: responses and what WritePackets puts on the wire.           *)
(***************************************************************************)
\* one LDAP message written to the client: the message ID, the tag of the
\* protocol op, the fields of its BaseResponse, the extended name and value,
\* and whether the connection was TLS when it was written.  Packet.write puts
\* the five low bits of the tag in the identifier byte (byte(p.Tag)&0x1f).
WireMessage(msgID, tag, r) ==
    [id |-> msgID, tag |-> tag % 32, code |-> r.Code, msg |-> r.Message,
     name |-> r.Name, value |-> r.Value, dn |-> ""]

\* a response value: BaseResponse, and the fields of the types that embed it
Response(type, messageType, code, message, name, value, results) ==
    [type |-> type, MessageType |-> messageType, Code |-> code, Message |-> message,
     Name |-> name, Value |-> value, Results |-> results]

\* the SearchResultEntry message of a result: its objectName is the result's DN
SearchResultEntry(msgID, res) ==
    [id |-> msgID, tag |-> ApplicationSearchResultEntry, code |-> ResultSuccess,
     msg |-> Text(""), name |-> "", value |-> "", dn |-> res]

\* the tag each response type's WritePackets sets on the packet
ResponseTag(r) ==
    CASE r.type = "Base" -> r.MessageType
      [] r.type = "Bind" -> ApplicationBindResponse
      [] r.type = "Search" -> ApplicationSearchResultDone
      [] r.type = "Modify" -> ApplicationModifyResponse
      [] r.type = "Add" -> ApplicationAddResponse
      [] r.type = "Delete" -> ApplicationDelResponse
      [] r.type = "ModifyDN" -> ApplicationModifyDNResponse
      [] r.type = "Extended" -> ApplicationExtendedResponse

\* only the final message is written
WritePackets_doneOnly(r, msgID) == <<WireMessage(msgID, ResponseTag(r), r)>>

\* Response.WritePackets: a SearchResponse writes one SearchResultEntry per
\* result, in the order of r.Results, and then SearchResultDone, built from
\* the BaseResponse as it is before the code of an empty result is changed;
\* the others write one message
WritePackets(r, msgID) ==
    IF r.type = "Search"
    THEN [k \in 1..Len(r.Results) |-> SearchResultEntry(msgID, r.Results[k])]
             \o <<WireMessage(msgID, ResponseTag(r), r)>>
    ELSE <<WireMessage(msgID, ResponseTag(r), r)>>

(***************************************************************************)
(* The server: processRequest.                                             *)
(***************************************************************************)
\* what processRequest returns and did: the error (nil, io.EOF, ProtocolError,
\* UnsupportedRequestTagError, or another error) with its text, the messages
\* it wrote and flushed, the messages it wrote to cli.wr and left unflushed,
\* the Backend method it called, the error of the request's parser if that
\* failed, whether it made the connection TLS, and whether it panicked
Returns(err, msg, out, backend) ==
    [err |-> err, msg |-> msg, out |-> out, buf |-> <<>>, backend |-> backend,
     parseErr |-> "nil", tls |-> FALSE, panic |-> FALSE]

\* the response is written to cli.wr and the Flush is left out
writeResponse_noFlush(res, msgID, io, backend) ==
    [Returns("nil", Text(""), <<>>, backend) EXCEPT !.buf = WritePackets(res, msgID)]

\* the end of processRequest: SetWriteDeadline, res.WritePackets, cli.wr.Flush
writeResponse(res, msgID, io, backend) ==
    IF ~io.deadline
    THEN Returns("other", Text("failed to set deadline for write: %w"), <<>>, backend)
    ELSE IF ~io.write
    THEN Returns("other", Text("write failed"), <<>>, backend)
    ELSE Returns("nil", Text(""), WritePackets(res, msgID), backend)

\* a parser's failure as processRequest returns it
parseFailure(p) ==
    IF p.st = "panic"
    THEN [Returns("panic", p.msg, <<>>, "none") EXCEPT !.panic = TRUE, !.parseErr = p.st]
    ELSE IF p.st = "ProtocolError"
    THEN [Returns("ProtocolError", p.msg, <<>>, "none") EXCEPT !.parseErr = p.st]
    ELSE [Returns("other", p.msg, <<>>, "none") EXCEPT !.parseErr = p.st]

\* a Backend method's error as processRequest returns it
backendFailure(be, method) ==
    Returns(be.err,
            IF be.err = "UnsupportedRequestTagError"
            THEN TextD("unsupported request tag %d", 0)
            ELSE Text("backend error"),
            <<>>, method)

\* the cases that parse the request, call one Backend method and write its
\* response: Bind, Add, Delete, Modify, ModifyDN
simpleRequest(p, method, msgID, be, io) ==
    IF p.st # "ok" THEN parseFailure(p)
    ELSE IF be.err # "nil" THEN backendFailure(be, method)
    ELSE writeResponse(Response(method, 0, be.code, Text(""), "", "", <<>>),
                       msgID, io, method)

\* case ApplicationSearchRequest: the root DSE is answered by the server
searchRequest(p, msgID, be, io) ==
    IF p.st # "ok" THEN parseFailure(p)
    ELSE IF p.v.BaseDN = "" /\ p.v.Scope = ScopeBaseObject
    THEN writeResponse(Response("Search", 0, ResultSuccess, Text(""), "", "", <<"">>),
                       msgID, io, "none")
    ELSE IF be.err # "nil" THEN backendFailure(be, "Search")
    ELSE writeResponse(Response("Search", 0, be.code, Text(""), "", "", be.results),
                       msgID, io, "Search")

\* ParsePacket of the byte strings a PasswordModify request value is drawn
\* from: byte strings are opaque in this model, and these are their decodings
ParsePacketValue(buf) ==
    IF buf = "passwd:user,new"
    THEN ParseOk(WireSequence(<<WirePrimitive(ClassContext, 0, "uid=joe"),
                                WirePrimitive(ClassContext, 2, "secret")>>))
    ELSE IF buf = "passwd:tag5"
    THEN ParseOk(WireSequence(<<WirePrimitive(ClassContext, 5, "x")>>))
    ELSE InvalidBEREncodingError(Text("ldap: short packet"))

\* the success response is written and the connection is left as it is
startTLS_noWrap(msgID, io) ==
    Returns("nil", Text(""),
            WritePackets(Response("Extended", 0, ResultSuccess, Text(""),
                                  OIDStartTLS, "", <<>>), msgID),
            "none")

\* case OIDStartTLS with a tlsConfig: the success response is written and
\* flushed, then cli.cn is wrapped by tls.Server and cli.wr reset to it; the
\* messages of out are the ones flushed before the wrap
startTLS(msgID, io) ==
    IF ~io.write
    THEN Returns("other", Text("write failed"), <<>>, "none")
    ELSE [Returns("nil", Text(""),
                  WritePackets(Response("Extended", 0, ResultSuccess, Text(""),
                                        OIDStartTLS, "", <<>>), msgID),
                  "none") EXCEPT !.tls = TRUE]

\* case ApplicationExtendedRequest
extendedRequest(p, msgID, be, io, tlsCfg) ==
    IF p.st # "ok" THEN parseFailure(p)
    ELSE IF p.v.Name = OIDStartTLS
    THEN IF ~tlsCfg
         THEN writeResponse(Response("Extended", 0, ResultUnavailable,
                                     Text("TLS not configured"), OIDStartTLS, "", <<>>),
                            msgID, io, "none")
         ELSE startTLS(msgID, io)
    ELSE IF p.v.Name = OIDPasswordModify
    THEN LET \* len(req.Value) != 0
                 given == p.v.Value \notin {"", NilBytes}
                 dec == IF given THEN ParsePacketValue(p.v.Value)
                        ELSE ParseOk(WireSequence(<<>>))
                 r == IF dec.st # "ok" THEN dec
                      ELSE IF given THEN parsePasswordModifyRequest(dec.v)
                      ELSE ParseOk([UserIdentity |-> "", OldPassword |-> NilBytes,
                                    NewPassword |-> NilBytes])
         IN  IF r.st # "ok" THEN parseFailure(r)
             ELSE IF be.err # "nil" THEN backendFailure(be, "PasswordModify")
             ELSE writeResponse(Response("Extended", 0, ResultSuccess, Text(""), "",
                                         IF be.gen THEN "SEQUENCE{[0]gen}" ELSE "SEQUENCE{}", <<>>),
                                msgID, io, "PasswordModify")
    ELSE IF p.v.Name = OIDWhoAmI
    THEN IF be.err # "nil" THEN backendFailure(be, "Whoami")
         ELSE writeResponse(Response("Extended", 0, ResultSuccess, Text(""), "",
                                     "dn:cn=joe", <<>>),
                            msgID, io, "Whoami")
    ELSE IF be.err # "nil" THEN backendFailure(be, "ExtendedRequest")
         ELSE writeResponse(Response("Extended", 0, be.code, Text(""), "", "", <<>>),
                            msgID, io, "ExtendedRequest")

\* the tags processRequest has a case for
HandledTags ==
    {ApplicationUnbindRequest, ApplicationBindRequest, ApplicationSearchRequest,
     ApplicationAddRequest, ApplicationDelRequest, ApplicationModifyRequest,
     ApplicationModifyDNRequest, ApplicationExtendedRequest}

\* srvClient.processRequest: switch pkt.Tag
processRequest(msgID, pkt, be, io, tlsCfg) ==
    IF pkt.tag = ApplicationUnbindRequest
    THEN Returns("EOF", Text("EOF"), <<>>, "none")
    ELSE IF pkt.tag = ApplicationBindRequest
    THEN simpleRequest(parseBindRequest(pkt), "Bind", msgID, be, io)
    ELSE IF pkt.tag = ApplicationSearchRequest
    THEN searchRequest(parseSearchRequest(pkt), msgID, be, io)
    ELSE IF pkt.tag = ApplicationAddRequest
    THEN simpleRequest(parseAddRequest(pkt), "Add", msgID, be, io)
    ELSE IF pkt.tag = ApplicationDelRequest
    THEN simpleRequest(parseDeleteRequest(pkt), "Delete", msgID, be, io)
    ELSE IF pkt.tag = ApplicationModifyRequest
    THEN simpleRequest(parseModifyRequest(pkt), "Modify", msgID, be, io)
    ELSE IF pkt.tag = ApplicationModifyDNRequest
    THEN simpleRequest(parseModifyDNRequest(pkt), "ModifyDN", msgID, be, io)
    ELSE IF pkt.tag = ApplicationExtendedRequest
    THEN extendedRequest(parseExtendedRequest(pkt), msgID, be, io, tlsCfg)
    ELSE Returns("UnsupportedRequestTagError",
                 TextD("unsupported request tag %d", pkt.tag), <<>>, "none")

(***************************************************************************)
(* The server: the messages a client sends.                                *)
(***************************************************************************)
\* a present filter, and the eight items of a SearchRequest
PresentFilter == WirePrimitive(ClassContext, filterTagPresent, "objectClass")
SearchItems(base, scope, filter, attrs) ==
    <<WireOctetString(base), WireEnumerated(scope), WireEnumerated(0),
      WireInteger(0), WireInteger(0), WireBoolean(FALSE), filter, WireSequence(attrs)>>
AttributeItem(name, vals) ==
    WireSequence(<<WireOctetString(name), WireConstructed(ClassUniversal, TagSet, vals)>>)

\* well-formed requests, one or more of each kind the server knows
GoodRequests ==
    { WireConstructed(ClassApplication, ApplicationBindRequest,
          <<WireInteger(3), WireOctetString("cn=joe"), WirePrimitive(ClassContext, 0, "pw")>>),
      WirePrimitive(ClassApplication, ApplicationUnbindRequest, ""),
      WireConstructed(ClassApplication, ApplicationSearchRequest,
          SearchItems("dc=example", ScopeWholeSubtree, PresentFilter, <<WireOctetString("cn")>>)),
      WireConstructed(ClassApplication, ApplicationSearchRequest,
          SearchItems("", ScopeBaseObject, PresentFilter, <<>>)),
      WireConstructed(ClassApplication, ApplicationAddRequest,
          <<WireOctetString("cn=joe"),
            WireSequence(<<AttributeItem("cn", <<WireOctetString("joe")>>)>>)>>),
      WirePrimitive(ClassApplication, ApplicationDelRequest, "cn=joe"),
      WireConstructed(ClassApplication, ApplicationModifyRequest,
          <<WireOctetString("cn=joe"),
            WireSequence(<<WireSequence(<<WireEnumerated(2),
                                          AttributeItem("sn", <<WireOctetString("x")>>)>>)>>)>>),
      WireConstructed(ClassApplication, ApplicationModifyDNRequest,
          <<WireOctetString("cn=joe"), WireOctetString("cn=jim"), WireBoolean(TRUE)>>),
      WireConstructed(ClassApplication, ApplicationExtendedRequest,
          <<WirePrimitive(ClassContext, 0, OIDStartTLS)>>),
      WireConstructed(ClassApplication, ApplicationExtendedRequest,
          <<WirePrimitive(ClassContext, 0, OIDWhoAmI)>>),
      WireConstructed(ClassApplication, ApplicationExtendedRequest,
          <<WirePrimitive(ClassContext, 0, OIDPasswordModify)>>),
      WireConstructed(ClassApplication, ApplicationExtendedRequest,
          <<WirePrimitive(ClassContext, 0, OIDPasswordModify),
            WirePrimitive(ClassContext, 1, "passwd:user,new")>>),
      WireConstructed(ClassApplication, ApplicationExtendedRequest,
          <<WirePrimitive(ClassContext, 0, OIDCancel),
            WirePrimitive(ClassContext, 1, "x")>>) }

\* requests the parsers refuse or fail on
BadRequests ==
    { WireConstructed(ClassApplication, ApplicationBindRequest,
          <<WireInteger(2), WireOctetString("cn=joe"), WirePrimitive(ClassContext, 0, "pw")>>),
      WireConstructed(ClassApplication, ApplicationBindRequest,
          <<WireInteger(3), WireOctetString("cn=joe")>>),
      WireConstructed(ClassApplication, ApplicationBindRequest,
          <<WireInteger(3), WireInteger(7), WirePrimitive(ClassContext, 0, "pw")>>),
      WireConstructed(ClassApplication, ApplicationBindRequest,
          <<WireInteger(3), WireOctetString("cn=joe"),
            WireConstructed(ClassContext, 3, <<WireOctetString("PLAIN")>>)>>),
      WireConstructed(ClassApplication, ApplicationSearchRequest,
          <<WireOctetString("dc=example")>>),
      WireConstructed(ClassApplication, ApplicationSearchRequest,
          SearchItems("dc=example", ScopeWholeSubtree,
                      WireConstructed(ClassContext, filterTagExtensibleMatch, <<>>), <<>>)),
      WireConstructed(ClassApplication, ApplicationSearchRequest,
          SearchItems("dc=example", ScopeWholeSubtree,
                      WireConstructed(ClassContext, filterTagNOT, <<>>), <<>>)),
      WireConstructed(ClassApplication, ApplicationSearchRequest,
          SearchItems("dc=example", ScopeWholeSubtree, PresentFilter, <<WireInteger(1)>>)),
      WireConstructed(ClassApplication, ApplicationAddRequest,
          <<WireOctetString("cn=joe")>>),
      WireConstructed(ClassApplication, ApplicationAddRequest,
          <<WireOctetString("cn=joe"),
            WireSequence(<<AttributeItem("cn", <<WireInteger(1)>>)>>)>>),
      WireConstructed(ClassApplication, ApplicationDelRequest, <<>>),
      WireConstructed(ClassApplication, ApplicationModifyRequest,
          <<WireOctetString("cn=joe"),
            WireSequence(<<WireSequence(<<WireEnumerated(2)>>)>>)>>),
      WireConstructed(ClassApplication, ApplicationModifyDNRequest,
          <<WireOctetString("cn=joe"), WireOctetString("cn=jim")>>),
      WireConstructed(ClassApplication, ApplicationExtendedRequest,
          <<WirePrimitive(ClassContext, 7, "x")>>),
      WireConstructed(ClassApplication, ApplicationExtendedRequest,
          <<WirePrimitive(ClassContext, 0, OIDPasswordModify),
            WirePrimitive(ClassContext, 1, "passwd:tag5")>>),
      WireConstructed(ClassApplication, ApplicationExtendedRequest,
          <<WirePrimitive(ClassContext, 0, OIDPasswordModify),
            WirePrimitive(ClassContext, 1, "passwd:truncated")>>) }

\* requests whose tag processRequest has no case for: CompareRequest,
\* AbandonRequest, a response tag, and tags LDAP does not assign
OtherRequests ==
    { WireConstructed(ClassApplication, ApplicationCompareRequest,
          <<WireOctetString("cn=joe"),
            WireSequence(<<WireOctetString("cn"), WireOctetString("joe")>>)>>),
      WirePrimitive(ClassApplication, ApplicationAbandonRequest, "2"),
      WireConstructed(ClassApplication, ApplicationBindResponse,
          <<WireEnumerated(0), WireOctetString(""), WireOctetString("")>>),
      WireConstructed(ClassApplication, 30, <<>>),
      WireConstructed(ClassApplication, 31, <<>>) }

Requests == GoodRequests \cup BadRequests \cup OtherRequests

MsgIDs == 1..MaxMsgID

\* NewRequestPacket(msgID) with the request added, as ParsePacket returns it
LDAPMessage(msgID, req) == WireSequence(<<WireInteger(msgID), req>>)

\* messages serve() gives up on: too few items, not a sequence, no integer ID
BadMessages ==
    { WireSequence(<<WireInteger(1)>>),
      WireConstructed(ClassApplication, ApplicationBindRequest,
          <<WireInteger(1), WirePrimitive(ClassApplication, ApplicationUnbindRequest, "")>>),
      WireSequence(<<WireOctetString("1"),
                     WirePrimitive(ClassApplication, ApplicationUnbindRequest, "")>>) }

Messages == {LDAPMessage(i, r) : i \in MsgIDs, r \in Requests} \cup BadMessages

\* the DNs of the results of a Search that finds n entries, in the order the
\* Backend returns them
EntryDNs == <<"cn=zoe", "cn=amy", "cn=bob", "cn=eve">>
SearchResults(n) == SubSeq(EntryDNs, 1, n)

\* what a Backend method returns: a response with a result code (Search: and
\* its results; PasswordModify: a generated password or none), or an error
BackendReturns ==
    {[err |-> "nil", code |-> c, results |-> SearchResults(k), gen |-> FALSE] :
         c \in {ResultSuccess, ResultInvalidCredentials}, k \in 0..MaxResults}
    \cup {[err |-> "nil", code |-> ResultSuccess, results |-> <<>>, gen |-> TRUE]}
    \cup {[err |-> e, code |-> ResultSuccess, results |-> <<>>, gen |-> FALSE] :
         e \in {"ProtocolError", "UnsupportedRequestTagError", "EOF", "other"}}

\* whether the transport calls of one request succeed: processRequest's
\* SetWriteDeadline, the writes and flushes on cli.wr (a bufio.Writer keeps
\* its first error), and serve's SetWriteDeadline before and after the error
\* reply.  At most one of the four fails while one request is handled.
IOOutcomes ==
    {io \in [deadline : BOOLEAN, write : BOOLEAN, errDeadline : BOOLEAN, clear : BOOLEAN] :
        Cardinality({f \in {"deadline", "write", "errDeadline", "clear"} : ~io[f]}) <= 1}

AllIOWorks == [deadline |-> TRUE, write |-> TRUE, errDeadline |-> TRUE, clear |-> TRUE]

\* the transport call that fails, if one does
IOFailure(io) ==
    IF io = AllIOWorks THEN "none"
    ELSE CHOOSE f \in {"deadline", "write", "errDeadline", "clear"} : ~io[f]

(***************************************************************************)
(* The client: state.                                                      *)
(***************************************************************************)
Callers == {"c1", "c2"}
IDs == 0..(InitMsgID + MaxRequests)
Ops == {"request", "Search", "StartTLS"}

VARIABLES
    msgID,          \* Client.msgID
    isTLS,          \* Client.isTLS
    cnTLS,          \* whether Client.cn is a TLS connection
    cnClosed,       \* whether Client.cn has been closed
    rmap,           \* Client.rmap: the IDs that have an entry (the entry of ID i
                    \* is the channel made by the call that allocated i)
    chans,          \* the buffer of the channel made by the call that allocated i
    waitNextSendCh, \* number of sentinels queued for the send loop
    waitNextRecvCh, \* number of sentinels queued for the receive loop
    sendPc, sendCur,    \* send loop: position, ID of the request in hand
    recvPc, recvCur,    \* receive loop: position, packet in hand
    pc, op, cid, res,   \* callers: position, operation, ID, result of the call
    reqOp,          \* the operation of the request that carries ID i
    srv,            \* the peer's progress on the request with ID i: "none" until the
                    \* request is written to the transport, then "open", then "done"
    srvEntries,     \* entries / unexpected packets the peer has sent so far
    allocated,      \* history: the IDs newID has returned, in order
    returned        \* history: the IDs whose operation has returned to its caller

cliVars == <<msgID, isTLS, cnTLS, cnClosed, rmap, chans, waitNextSendCh,
             waitNextRecvCh, sendPc, sendCur, recvPc, recvCur, pc, op, cid, res,
             reqOp, srv, srvEntries, allocated, returned>>

VARIABLES
    srvState,       \* the connection's goroutine: "accepted" before Backend.Connect,
                    \* "serving" in the loop of serve, "closed" once serve returned,
                    \* "crashed" after a panic
    tlsConfig,      \* whether Server.tlsConfig is set
    srvTLS,         \* whether cli.cn is a TLS connection
    cliState,       \* cli.state: "none" before Connect, then "nil" or "state"
    disconnects,    \* how many times Backend.Disconnect has been called
    nRead,          \* packets read so far
    last,           \* the last packet read and what serve did with it: the request's
                    \* ID, tag and extended name, the error of processRequest, the messages written,
                    \* the Backend method called and what it returned (the error,
                    \* the results and the code of a Search), the transport call that failed,
                    \* and whether serve returned
    reads,          \* history: for each packet read, whether cli.cn was TLS
    wrBuf,          \* cli.wr: the messages written to it and not yet flushed
    wire            \* history: the messages flushed to cli.cn, in order, each with
                    \* the number of the packet that was being handled when it was
                    \* written and whether cli.cn was TLS

srvVars == <<srvState, tlsConfig, srvTLS, cliState, disconnects, nRead, last,
             reads, wrBuf, wire>>

VARIABLES
    fn,             \* the function applied to arg, "none" before it is applied
    arg,            \* the input of a function of the library
    ret             \* what the function returned

fnVars == <<fn, arg, ret>>

VARIABLES
    servePc,        \* each call of Server.Serve or Server.ServeTLS: "idle" before
                    \* the call, "accept" in the loop of Server.serve,
                    \* "returned" after it
    serveErr,       \* the error a call returned, "none" while it has not returned
    lnClosed,       \* whether the listener of the Serve call has been closed
    closedAccepts,  \* how many times ln.Accept of the Serve call has failed
                    \* because the listener is closed
    conns,          \* connections accepted whose goroutine is still running
    shutdownPc      \* Shutdown: "idle", "waiting" for the connections, "done"

lsnVars == <<servePc, serveErr, lnClosed, closedAccepts, conns, shutdownPc>>

\* what the actions of the client, of the server connection, of the functions
\* and of the listener leave alone
nonCliVars == <<srvVars, fnVars, lsnVars>>
nonSrvVars == <<cliVars, fnVars, lsnVars>>
nonFnVars == <<cliVars, srvVars, lsnVars>>
nonLsnVars == <<cliVars, srvVars, fnVars>>

vars == <<cliVars, srvVars, fnVars, lsnVars>>

NoPkt == [id |-> 0, tag |-> "none", code |-> 0]
ErrMsg == [id |-> 0, tag |-> "err", code |-> 0]

(***************************************************************************)
(* The client: pure helpers.                                               *)
(***************************************************************************)
\* a newID that hands out the counter without advancing it
newID_stuck(m) == m
\* a finishMessage that leaves the entry in the map
finishMessage_keep(m, i) == m

\* Client.newID: atomic.AddUint32(&c.msgID, 1) returns the new value.  The
\* counter is a uint32 and wraps after 2^32 - 1; every value the model checker
\* can represent (below 2^31) is short of the wrap, so the sum is exact here.
newID(m) == m + 1

\* Client.finishMessage: delete(c.rmap, msgID)
finishMessage(m, i) == m \ {i}

\* the send loop's c.rmap[rq.i] = rq.c
rmapInsert(m, i) == m \cup {i}

\* StartTLS "must not be called concurrently with other requests"
NoCallInProgress == \A c \in Callers : pc[c] = "idle"
NoStartTLSInProgress == \A c \in Callers : pc[c] = "idle" \/ op[c] # "StartTLS"

\* what a request-based caller makes of the packet request() returned:
\* r.err, the error of the send loop's write or flush, then
\* parse...Response, then res.BaseResponse.Err()
requestResult(r) ==
    IF r.tag = "err" THEN "writeErr"
    ELSE IF r.code = ResultSuccess THEN "ok" ELSE "err"

(***************************************************************************)
(* The client: NewClient.                                                  *)
(***************************************************************************)
InitClient ==
    /\ msgID = InitMsgID
    /\ isTLS \in BOOLEAN            \* Dial: false, DialTLS: true
    /\ cnTLS = isTLS
    /\ cnClosed = FALSE
    /\ rmap = {}
    /\ chans = [i \in IDs |-> <<>>]
    /\ waitNextSendCh = 0
    /\ waitNextRecvCh = 0
    /\ sendPc = "recv" /\ sendCur = 0
    /\ recvPc = "read" /\ recvCur = NoPkt
    /\ pc = [c \in Callers |-> "idle"]
    /\ op = [c \in Callers |-> "none"]
    /\ cid = [c \in Callers |-> 0]
    /\ res = [c \in Callers |-> "none"]
    /\ reqOp = [i \in IDs |-> "none"]
    /\ srv = [i \in IDs |-> "none"]
    /\ srvEntries = 0
    /\ allocated = <<>>
    /\ returned = {}

(***************************************************************************)
(* The client: callers.                                                    *)
(***************************************************************************)
\* the id := c.newID(); ch := make(chan packetError, 1) that opens request()
\* and Search(); the caller then blocks on c.rq <- cliReq{...}
allocate(c, o) ==
    LET id == newID(msgID) IN
    /\ Len(allocated) < MaxRequests
    /\ msgID' = id
    /\ cid' = [cid EXCEPT ![c] = id]
    /\ op' = [op EXCEPT ![c] = o]
    /\ reqOp' = [reqOp EXCEPT ![id] = o]
    /\ allocated' = Append(allocated, id)
    /\ pc' = [pc EXCEPT ![c] = "enqueue"]
    /\ res' = [res EXCEPT ![c] = "none"]

\* Bind, Delete, Modify, WhoAmI: c.request(...)
CallRequest(c) ==
    /\ pc[c] = "idle"
    /\ NoStartTLSInProgress
    /\ allocate(c, "request")
    /\ UNCHANGED <<isTLS, cnTLS, cnClosed, rmap, chans, waitNextSendCh,
                   waitNextRecvCh, sendPc, sendCur, recvPc, recvCur, srv, srvEntries, returned>>
    /\ UNCHANGED nonCliVars

\* Search
CallSearch(c) ==
    /\ pc[c] = "idle"
    /\ NoStartTLSInProgress
    /\ allocate(c, "Search")
    /\ UNCHANGED <<isTLS, cnTLS, cnClosed, rmap, chans, waitNextSendCh,
                   waitNextRecvCh, sendPc, sendCur, recvPc, recvCur, srv, srvEntries, returned>>
    /\ UNCHANGED nonCliVars

\* StartTLS: if c.isTLS { return ErrAlreadyTLS }
CallStartTLS(c) ==
    /\ NoCallInProgress
    /\ Len(allocated) < MaxRequests
    /\ IF isTLS
       THEN /\ res' = [res EXCEPT ![c] = "ErrAlreadyTLS"]
            /\ UNCHANGED <<pc, op>>
       ELSE /\ res' = [res EXCEPT ![c] = "none"]
            /\ op' = [op EXCEPT ![c] = "StartTLS"]
            /\ pc' = [pc EXCEPT ![c] = "tlsPutS"]
    /\ UNCHANGED <<msgID, isTLS, cnTLS, cnClosed, rmap, chans, waitNextSendCh,
                   waitNextRecvCh, sendPc, sendCur, recvPc, recvCur, cid,
                   reqOp, srv, srvEntries, allocated, returned>>
    /\ UNCHANGED nonCliVars

\* StartTLS: c.waitNextSendCh <- chS
StartTLSPutS(c) ==
    /\ pc[c] = "tlsPutS"
    /\ waitNextSendCh < SentinelCap
    /\ waitNextSendCh' = waitNextSendCh + 1
    /\ pc' = [pc EXCEPT ![c] = "tlsPutR"]
    /\ UNCHANGED <<msgID, isTLS, cnTLS, cnClosed, rmap, chans, waitNextRecvCh,
                   sendPc, sendCur, recvPc, recvCur, op, cid, res, reqOp,
                   srv, srvEntries, allocated, returned>>
    /\ UNCHANGED nonCliVars

\* StartTLS: c.waitNextRecvCh <- chR
StartTLSPutR(c) ==
    /\ pc[c] = "tlsPutR"
    /\ waitNextRecvCh < SentinelCap
    /\ waitNextRecvCh' = waitNextRecvCh + 1
    /\ pc' = [pc EXCEPT ![c] = "tlsRequest"]
    /\ UNCHANGED <<msgID, isTLS, cnTLS, cnClosed, rmap, chans, waitNextSendCh,
                   sendPc, sendCur, recvPc, recvCur, op, cid, res, reqOp,
                   srv, srvEntries, allocated, returned>>
    /\ UNCHANGED nonCliVars

\* StartTLS: c.request(&ExtendedRequest{Name: OIDStartTLS})
StartTLSRequest(c) ==
    /\ pc[c] = "tlsRequest"
    /\ allocate(c, "StartTLS")
    /\ UNCHANGED <<isTLS, cnTLS, cnClosed, rmap, chans, waitNextSendCh,
                   waitNextRecvCh, sendPc, sendCur, recvPc, recvCur, srv, srvEntries, returned>>
    /\ UNCHANGED nonCliVars

\* r := <-ch in request() and in Search's loop
CallerRecv(c) ==
    /\ pc[c] = "wait"
    /\ chans[cid[c]] # <<>>
    /\ LET r == Head(chans[cid[c]]) IN
       /\ chans' = [chans EXCEPT ![cid[c]] = Tail(@)]
       /\ IF op[c] = "Search"
          THEN IF r.tag = "Entry"
               THEN UNCHANGED <<pc, res>>
               ELSE /\ pc' = [pc EXCEPT ![c] = "finish"]
                    /\ res' = [res EXCEPT ![c] =
                                 IF r.tag \in {"Done", "err"} THEN requestResult(r)
                                 ELSE "err"]
          ELSE /\ pc' = [pc EXCEPT ![c] = "finish"]
               /\ res' = [res EXCEPT ![c] = requestResult(r)]
    /\ UNCHANGED <<msgID, isTLS, cnTLS, cnClosed, rmap, waitNextSendCh,
                   waitNextRecvCh, sendPc, sendCur, recvPc, recvCur, op, cid,
                   reqOp, srv, srvEntries, allocated, returned>>
    /\ UNCHANGED nonCliVars

\* c.finishMessage(id), and the return of request-based calls and of Search
CallerFinish(c) ==
    /\ pc[c] = "finish"
    /\ rmap' = finishMessage(rmap, cid[c])
    /\ IF op[c] = "StartTLS"
       THEN /\ pc' = [pc EXCEPT ![c] = IF res[c] = "ok" THEN "tlsHandshake"
                                                       ELSE "tlsRelS"]
            /\ UNCHANGED <<op, cid, returned>>
       ELSE /\ pc' = [pc EXCEPT ![c] = "idle"]
            /\ op' = [op EXCEPT ![c] = "none"]
            /\ cid' = [cid EXCEPT ![c] = 0]
            /\ returned' = returned \cup {cid[c]}
    /\ UNCHANGED <<msgID, isTLS, cnTLS, cnClosed, chans, waitNextSendCh,
                   waitNextRecvCh, sendPc, sendCur, recvPc, recvCur, res,
                   reqOp, srv, srvEntries, allocated>>
    /\ UNCHANGED nonCliVars

\* StartTLS: tlsCn.Handshake(); c.cn = tlsCn; c.wr.Reset(c.cn)
StartTLSHandshake(c) ==
    /\ pc[c] = "tlsHandshake"
    /\ \/ /\ ~cnClosed
          /\ cnTLS' = TRUE
          /\ UNCHANGED res
       \/ /\ res' = [res EXCEPT ![c] = "err"]
          /\ UNCHANGED cnTLS
    /\ pc' = [pc EXCEPT ![c] = "tlsRelS"]
    /\ UNCHANGED <<msgID, isTLS, cnClosed, rmap, chans, waitNextSendCh,
                   waitNextRecvCh, sendPc, sendCur, recvPc, recvCur, op, cid,
                   reqOp, srv, srvEntries, allocated, returned>>
    /\ UNCHANGED nonCliVars

\* StartTLS's deferred chS <- struct{}{}, received by the halted send loop
StartTLSReleaseS(c) ==
    /\ pc[c] = "tlsRelS"
    /\ sendPc = "halted"
    /\ sendPc' = "recv"
    /\ pc' = [pc EXCEPT ![c] = "tlsRelR"]
    /\ UNCHANGED <<msgID, isTLS, cnTLS, cnClosed, rmap, chans, waitNextSendCh,
                   waitNextRecvCh, sendCur, recvPc, recvCur, op, cid, res,
                   reqOp, srv, srvEntries, allocated, returned>>
    /\ UNCHANGED nonCliVars

\* StartTLS's deferred chR <- struct{}{}, received by the halted receive loop;
\* StartTLS returns
StartTLSReleaseR(c) ==
    /\ pc[c] = "tlsRelR"
    /\ recvPc = "halted"
    /\ recvPc' = "read"
    /\ pc' = [pc EXCEPT ![c] = "idle"]
    /\ op' = [op EXCEPT ![c] = "none"]
    /\ cid' = [cid EXCEPT ![c] = 0]
    /\ returned' = returned \cup {cid[c]}
    /\ UNCHANGED <<msgID, isTLS, cnTLS, cnClosed, rmap, chans, waitNextSendCh,
                   waitNextRecvCh, sendPc, sendCur, recvCur, res, reqOp,
                   srv, srvEntries, allocated>>
    /\ UNCHANGED nonCliVars

\* Client.Close: c.cn.Close()
Close ==
    /\ ~cnClosed
    /\ cnClosed' = TRUE
    /\ UNCHANGED <<msgID, isTLS, cnTLS, rmap, chans, waitNextSendCh,
                   waitNextRecvCh, sendPc, sendCur, recvPc, recvCur, pc, op, cid,
                   res, reqOp, srv, srvEntries, allocated,
                   returned>>
    /\ UNCHANGED nonCliVars

(***************************************************************************)
(* The client: send loop.                                                  *)
(***************************************************************************)
\* rq, ok := <-c.rq, the rendezvous with a caller's c.rq <- cliReq{...}
SendRecv(c) ==
    /\ sendPc = "recv"
    /\ pc[c] = "enqueue"
    /\ sendCur' = cid[c]
    /\ sendPc' = "write"
    /\ pc' = [pc EXCEPT ![c] = "wait"]
    /\ UNCHANGED <<msgID, isTLS, cnTLS, cnClosed, rmap, chans, waitNextSendCh,
                   waitNextRecvCh, recvPc, recvCur, op, cid, res, reqOp,
                   srv, srvEntries, allocated, returned>>
    /\ UNCHANGED nonCliVars

\* rq.r.WritePackets(c.wr, rq.i) and c.wr.Flush() succeed
SendWrite ==
    /\ sendPc = "write"
    /\ ~cnClosed
    /\ srv' = [srv EXCEPT ![sendCur] = "open"]
    /\ sendPc' = "insert"
    /\ UNCHANGED <<msgID, isTLS, cnTLS, cnClosed, rmap, chans, waitNextSendCh,
                   waitNextRecvCh, sendCur, recvPc, recvCur, pc, op, cid, res,
                   reqOp, srvEntries, allocated, returned>>
    /\ UNCHANGED nonCliVars

\* WritePackets or Flush fails: rq.c <- packetError{err: err}; break.  The
\* connection is still open and the receive loop goes on reading until the
\* deferred function of the send loop runs.
SendWriteFail ==
    /\ sendPc = "write"
    /\ Len(chans[sendCur]) < ChanCap
    /\ chans' = [chans EXCEPT ![sendCur] = Append(@, ErrMsg)]
    /\ sendPc' = "break"
    /\ sendCur' = 0
    /\ UNCHANGED <<msgID, isTLS, cnTLS, cnClosed, rmap, waitNextSendCh, waitNextRecvCh,
                   recvPc, recvCur, pc, op, cid, res, reqOp, srv, srvEntries, allocated, returned>>
    /\ UNCHANGED nonCliVars

\* the deferred function of the send loop, after the break: c.cn.Close()
SendClose ==
    /\ sendPc = "break"
    /\ cnClosed' = TRUE
    /\ sendPc' = "stopped"
    /\ UNCHANGED <<msgID, isTLS, cnTLS, rmap, chans, waitNextSendCh, waitNextRecvCh,
                   sendCur, recvPc, recvCur, pc, op, cid, res, reqOp, srv, srvEntries,
                   allocated, returned>>
    /\ UNCHANGED nonCliVars

\* c.mu.Lock(); c.rmap[rq.i] = rq.c; c.mu.Unlock()
SendInsert ==
    /\ sendPc = "insert"
    /\ rmap' = rmapInsert(rmap, sendCur)
    /\ sendPc' = "select"
    /\ sendCur' = 0
    /\ UNCHANGED <<msgID, isTLS, cnTLS, cnClosed, chans, waitNextSendCh,
                   waitNextRecvCh, recvPc, recvCur, pc, op, cid, res,
                   reqOp, srv, srvEntries, allocated,
                   returned>>
    /\ UNCHANGED nonCliVars

\* select { case ch := <-c.waitNextSendCh: <-ch; default: }
SendSelect ==
    /\ sendPc = "select"
    /\ IF waitNextSendCh > 0
       THEN /\ waitNextSendCh' = waitNextSendCh - 1
            /\ sendPc' = "halted"
       ELSE /\ sendPc' = "recv"
            /\ UNCHANGED waitNextSendCh
    /\ UNCHANGED <<msgID, isTLS, cnTLS, cnClosed, rmap, chans, waitNextRecvCh,
                   sendCur, recvPc, recvCur, pc, op, cid, res, reqOp, srv, srvEntries, allocated, returned>>
    /\ UNCHANGED nonCliVars

(***************************************************************************)
(* The client: receive loop.                                               *)
(***************************************************************************)
\* pkt, _, err := ReadPacket(c.cn) returns the peer's final response to a
\* request written to the transport: one response for a request-based call,
\* SearchResultDone for a Search
RecvRead(i) ==
    /\ recvPc = "read"
    /\ ~cnClosed
    /\ srv[i] = "open"
    /\ \E code \in {ResultSuccess, ResultInvalidCredentials} :
         recvCur' = [id |-> i,
                     tag |-> IF reqOp[i] = "Search" THEN "Done" ELSE "Resp",
                     code |-> code]
    /\ srv' = [srv EXCEPT ![i] = "done"]
    /\ recvPc' = "lookup"
    /\ UNCHANGED <<msgID, isTLS, cnTLS, cnClosed, rmap, chans, waitNextSendCh,
                   waitNextRecvCh, sendPc, sendCur, pc, op, cid, res, reqOp,
                   srvEntries, allocated, returned>>
    /\ UNCHANGED nonCliVars

\* ReadPacket returns a SearchResultEntry of a Search written to the
\* transport, or a packet for it whose tag Search does not expect
RecvReadEntry(i) ==
    /\ recvPc = "read"
    /\ ~cnClosed
    /\ srv[i] = "open"
    /\ reqOp[i] = "Search"
    /\ srvEntries < MaxEntries
    /\ srvEntries' = srvEntries + 1
    /\ \E t \in {"Entry", "Other"} :
         recvCur' = [id |-> i, tag |-> t, code |-> ResultSuccess]
    /\ recvPc' = "lookup"
    /\ UNCHANGED <<msgID, isTLS, cnTLS, cnClosed, rmap, chans, waitNextSendCh,
                   waitNextRecvCh, sendPc, sendCur, pc, op, cid, res, reqOp,
                   srv, allocated, returned>>
    /\ UNCHANGED nonCliVars

\* ReadPacket fails (I/O error, closed connection) or the message is not a
\* sequence with an integer ID: break, and the deferred c.cn.Close()
RecvFail ==
    /\ recvPc = "read"
    /\ cnClosed' = TRUE
    /\ recvPc' = "stopped"
    /\ UNCHANGED <<msgID, isTLS, cnTLS, rmap, chans, waitNextSendCh,
                   waitNextRecvCh, sendPc, sendCur, recvCur, pc, op, cid, res,
                   reqOp, srv, srvEntries, allocated,
                   returned>>
    /\ UNCHANGED nonCliVars

\* c.mu.Lock(); ch := c.rmap[msgID]; c.mu.Unlock(); a nil ch is logged
RecvLookup ==
    /\ recvPc = "lookup"
    /\ IF recvCur.id \in rmap
       THEN recvPc' = "deliver" /\ UNCHANGED recvCur
       ELSE recvPc' = "select" /\ recvCur' = NoPkt
    /\ UNCHANGED <<msgID, isTLS, cnTLS, cnClosed, rmap, chans, waitNextSendCh,
                   waitNextRecvCh, sendPc, sendCur, pc, op, cid, res,
                   reqOp, srv, srvEntries, allocated,
                   returned>>
    /\ UNCHANGED nonCliVars

\* ch <- packetError{msgID: msgID, pkt: pkt.Items[1]}
RecvDeliver ==
    /\ recvPc = "deliver"
    /\ Len(chans[recvCur.id]) < ChanCap
    /\ chans' = [chans EXCEPT ![recvCur.id] = Append(@, recvCur)]
    /\ recvPc' = "select"
    /\ recvCur' = NoPkt
    /\ UNCHANGED <<msgID, isTLS, cnTLS, cnClosed, rmap, waitNextSendCh,
                   waitNextRecvCh, sendPc, sendCur, pc, op, cid, res,
                   reqOp, srv, srvEntries, allocated,
                   returned>>
    /\ UNCHANGED nonCliVars

\* a receive loop that goes on to its next read without looking for a sentinel
RecvSelect_goOn ==
    /\ recvPc = "select"
    /\ recvPc' = "read"
    /\ UNCHANGED <<msgID, isTLS, cnTLS, cnClosed, rmap, chans, waitNextSendCh, waitNextRecvCh,
                   sendPc, sendCur, recvCur, pc, op, cid, res, reqOp, srv, srvEntries, allocated, returned>>
    /\ UNCHANGED nonCliVars
\* select { case ch := <-c.waitNextRecvCh: <-ch; default: }
RecvSelect ==
    /\ recvPc = "select"
    /\ IF waitNextRecvCh > 0
       THEN /\ waitNextRecvCh' = waitNextRecvCh - 1
            /\ recvPc' = "halted"
       ELSE /\ recvPc' = "read"
            /\ UNCHANGED waitNextRecvCh
    /\ UNCHANGED <<msgID, isTLS, cnTLS, cnClosed, rmap, chans, waitNextSendCh,
                   sendPc, sendCur, recvCur, pc, op, cid, res, reqOp, srv, srvEntries, allocated, returned>>
    /\ UNCHANGED nonCliVars

NextClient ==
    \/ \E c \in Callers : CallRequest(c)
    \/ \E c \in Callers : CallSearch(c)
    \/ \E c \in Callers : CallStartTLS(c)
    \/ \E c \in Callers : StartTLSPutS(c)
    \/ \E c \in Callers : StartTLSPutR(c)
    \/ \E c \in Callers : StartTLSRequest(c)
    \/ \E c \in Callers : CallerRecv(c)
    \/ \E c \in Callers : CallerFinish(c)
    \/ \E c \in Callers : StartTLSHandshake(c)
    \/ \E c \in Callers : StartTLSReleaseS(c)
    \/ \E c \in Callers : StartTLSReleaseR(c)
    \/ Close
    \/ \E c \in Callers : SendRecv(c)
    \/ SendWrite
    \/ SendWriteFail
    \/ SendClose
    \/ SendInsert
    \/ SendSelect
    \/ \E i \in IDs : RecvRead(i)
    \/ \E i \in IDs : RecvReadEntry(i)
    \/ RecvFail
    \/ RecvLookup
    \/ RecvDeliver
    \/ RecvSelect

(***************************************************************************)
(* Functions of the library applied to one input.                          *)
(***************************************************************************)
\* no function is applied in the specifications of the client and the server
NoFunction == fn = "none" /\ arg = "none" /\ ret = "none"

(***************************************************************************)
(* The server: Serve, the accept loop, Shutdown.                           *)
(***************************************************************************)
\* the calls of Server.Serve
Serves == {"s1", "s2"}

\* a Server on which Serve has not been called yet
InitListener ==
    /\ servePc = [s \in Serves |-> "idle"]
    /\ serveErr = [s \in Serves |-> "none"]
    /\ lnClosed = [s \in Serves |-> FALSE]
    /\ closedAccepts = [s \in Serves |-> 0]
    /\ conns = 0
    /\ shutdownPc = "idle"

\* what net.Listen and tls.Listen return
ListenErrors == {"nil", "listen failed"}

\* the call goes on with srv.serve(ln) when the listener was made, and
\* returns the error when it was not
listen(s, err) ==
    /\ servePc' = [servePc EXCEPT ![s] = IF err = "nil" THEN "accept" ELSE "returned"]
    /\ serveErr' = [serveErr EXCEPT ![s] = IF err = "nil" THEN @ ELSE err]

\* Serve(network, addr): net.Listen, then the loop of Server.serve
Serve(s) ==
    /\ servePc[s] = "idle"
    /\ \E err \in ListenErrors : listen(s, err)
    /\ UNCHANGED <<lnClosed, closedAccepts, conns, shutdownPc>>
    /\ UNCHANGED nonLsnVars

\* ServeTLS(network, addr, tlsConfig): cfg is whether the argument is set;
\* a nil argument is replaced by srv.tlsConfig, and with neither the call
\* returns an error before it listens
ServeTLS(s, cfg) ==
    /\ servePc[s] = "idle"
    /\ IF ~cfg /\ ~tlsConfig
       THEN /\ servePc' = [servePc EXCEPT ![s] = "returned"]
            /\ serveErr' = [serveErr EXCEPT ![s] = "ldap: no TLS config"]
       ELSE \E err \in ListenErrors : listen(s, err)
    /\ UNCHANGED <<lnClosed, closedAccepts, conns, shutdownPc>>
    /\ UNCHANGED nonLsnVars

\* ln.Accept returns a connection: a goroutine is started for it and the
\* loop goes on
Accept(s) ==
    /\ servePc[s] = "accept"
    /\ ~lnClosed[s]
    /\ conns < MaxConns
    /\ conns' = conns + 1
    /\ UNCHANGED <<servePc, serveErr, lnClosed, closedAccepts, shutdownPc>>
    /\ UNCHANGED nonLsnVars

\* ln.Accept fails on a closed listener: log.Printf, continue
AcceptFail(s) ==
    /\ servePc[s] = "accept"
    /\ lnClosed[s]
    /\ closedAccepts[s] < MaxClosedAccepts
    /\ closedAccepts' = [closedAccepts EXCEPT ![s] = @ + 1]
    /\ UNCHANGED <<servePc, serveErr, lnClosed, conns, shutdownPc>>
    /\ UNCHANGED nonLsnVars

\* the goroutine of a connection returns
ConnectionEnds ==
    /\ conns > 0
    /\ conns' = conns - 1
    /\ UNCHANGED <<servePc, serveErr, lnClosed, closedAccepts, shutdownPc>>
    /\ UNCHANGED nonLsnVars

\* Shutdown closes the listeners of the running Serve calls, then waits
Shutdown ==
    /\ shutdownPc = "idle"
    /\ shutdownPc' = "waiting"
    /\ lnClosed' = [s \in Serves |-> lnClosed[s] \/ servePc[s] = "accept"]
    /\ UNCHANGED <<servePc, serveErr, closedAccepts, conns>>
    /\ UNCHANGED nonLsnVars

\* Shutdown returns once the connections in flight have drained
ShutdownReturns ==
    /\ shutdownPc = "waiting"
    /\ conns = 0
    /\ shutdownPc' = "done"
    /\ UNCHANGED <<servePc, serveErr, lnClosed, closedAccepts, conns>>
    /\ UNCHANGED nonLsnVars

LsnNext ==
    \/ \E s \in Serves : Serve(s)
    \/ \E s \in Serves, cfg \in BOOLEAN : ServeTLS(s, cfg)
    \/ \E s \in Serves : Accept(s)
    \/ \E s \in Serves : AcceptFail(s)
    \/ ConnectionEnds
    \/ Shutdown
    \/ ShutdownReturns

(***************************************************************************)
(* The server: one connection, srvClient.serve.                            *)
(***************************************************************************)
\* no request handled yet
NoRequest ==
    [read |-> "none", id |-> 0, tag |-> 0, err |-> "nil", msg |-> Text(""),
     out |-> <<>>, backend |-> "none", parseErr |-> "nil", ioFail |-> "none",
     be |-> "notCalled", end |-> FALSE, oid |-> "", results |-> <<>>,
     code |-> ResultSuccess]

InitServer ==
    /\ srvState = "accepted"
    /\ tlsConfig \in BOOLEAN        \* Server.tlsConfig is set or nil
    /\ srvTLS \in BOOLEAN           \* ServeTLS or Serve
    /\ cliState = "none"
    /\ disconnects = 0
    /\ nRead = 0
    /\ last = NoRequest
    /\ reads = <<>>
    /\ wrBuf = <<>>
    /\ wire = <<>>

\* the connection is closed and Backend.Disconnect is forgotten
closeConnection_noDisconnect ==
    /\ srvState' = "closed"
    /\ UNCHANGED disconnects

\* the deferred cli.cn.Close() and, if cli.state != nil, Backend.Disconnect
closeConnection ==
    /\ srvState' = "closed"
    /\ disconnects' = IF cliState \in {"none", "nil"} THEN disconnects ELSE disconnects + 1

\* a panic in the connection's goroutine: the deferred calls run as it unwinds,
\* and with no recover the process exits
crash ==
    /\ srvState' = "crashed"
    /\ disconnects' = IF cliState \in {"none", "nil"} THEN disconnects ELSE disconnects + 1

\* a reply that ignores the kind of error
errorResponse_generic(tag, pr) ==
    Response("Base", tag + 1, ResultOther, Text("ERROR"), "", "", <<>>)
\* every error ends the connection
errorEnds_always(pr) == TRUE

\* the reply serve builds for an error of processRequest other than io.EOF
errorResponse(tag, pr) ==
    IF pr.err = "ProtocolError"
    THEN Response("Base", tag + 1, ResultProtocolError, pr.msg, "", "", <<>>)
    ELSE IF pr.err = "UnsupportedRequestTagError"
    THEN Response("Base", tag + 1, ResultUnwillingToPerform,
                  TextD("unsupported request tag %d", pr.msg.arg), "", "", <<>>)
    ELSE Response("Base", tag + 1, ResultOther, Text("ERROR"), "", "", <<>>)

\* whether an error of processRequest other than io.EOF ends the connection
\* once its reply is written
errorEnds(pr) == pr.err \notin {"ProtocolError", "UnsupportedRequestTagError"}

\* the error branch of serve: the messages it writes and whether it returns.
\* A panic of processRequest unwinds serve, which never gets to the branch.
serveError(id, tag, pr, io) ==
    IF pr.panic THEN [out |-> <<>>, end |-> TRUE]
    ELSE IF pr.err = "EOF" THEN [out |-> <<>>, end |-> TRUE]
    ELSE IF ~io.errDeadline THEN [out |-> <<>>, end |-> TRUE]
    ELSE IF ~io.write THEN [out |-> <<>>, end |-> TRUE]
    ELSE [out |-> WritePackets(errorResponse(tag, pr), id),
          end |-> IF ~io.clear THEN TRUE ELSE errorEnds(pr)]

\* the messages written, each marked with whether the connection was TLS
stamp(out, tls) ==
    [k \in 1..Len(out) |->
        [id |-> out[k].id, tag |-> out[k].tag, code |-> out[k].code, msg |-> out[k].msg,
         name |-> out[k].name, value |-> out[k].value, dn |-> out[k].dn, tls |-> tls]]

\* state, err := cli.srv.Backend.Connect(...): an error closes the connection,
\* otherwise the state (which may be nil) is kept
SrvConnect ==
    /\ srvState = "accepted"
    /\ \/ /\ srvState' = "closed"
          /\ UNCHANGED cliState
       \/ /\ srvState' = "serving"
          /\ cliState' \in {"nil", "state"}
    /\ UNCHANGED <<tlsConfig, srvTLS, disconnects, nRead, last, reads, wrBuf, wire>>
    /\ UNCHANGED nonSrvVars

\* ReadPacket fails (EOF, a read error, an invalid encoding): return
SrvReadFail ==
    /\ srvState = "serving"
    /\ closeConnection
    /\ UNCHANGED <<tlsConfig, srvTLS, cliState, nRead, last, reads, wrBuf, wire>>
    /\ UNCHANGED nonSrvVars

\* ReadPacket panics: the peer sent eight length bytes that make dataLen
\* negative (30 88 ff ff ff ff ff ff ff ff), and buf[hdr:total] is out of
\* range; the deferred calls run and the process exits
SrvReadPanic ==
    /\ srvState = "serving"
    /\ crash
    /\ UNCHANGED <<tlsConfig, srvTLS, cliState, nRead, last, reads, wrBuf, wire>>
    /\ UNCHANGED nonSrvVars

\* req.Name of an ExtendedRequest that parseExtendedRequest parsed, whatever
\* became of its value afterwards; "" for every other request
requestName(pkt, pr) ==
    IF pkt.tag = ApplicationExtendedRequest /\ parseExtendedRequest(pkt).st = "ok"
    THEN parseExtendedRequest(pkt).v.Name
    ELSE ""

\* the messages written while packet number n is handled, as the history
\* records them
onWire(out, n, tls) == [k \in 1..Len(out) |-> [seq |-> n, tls |-> tls]]

\* one round of the loop of serve for a packet ReadPacket returned
SrvServe(m, be, io) ==
    /\ srvState = "serving"
    /\ nRead < MaxSrvRequests
    /\ nRead' = nRead + 1
    /\ reads' = Append(reads, srvTLS)
    /\ IF m.class # ClassUniversal \/ m.prim \/ m.tag # TagSequence \/ Len(m.items) < 2
          \/ ~PacketInt(m.items[1]).ok
       THEN /\ closeConnection
            /\ last' = [NoRequest EXCEPT !.read = "rejected", !.end = TRUE]
            /\ UNCHANGED <<srvTLS, wrBuf, wire>>
       ELSE \E pr \in {processRequest(PacketInt(m.items[1]).v, m.items[2], be, io, tlsConfig)} :
            \E er \in {IF pr.err = "nil" THEN [out |-> <<>>, end |-> FALSE]
                        ELSE serveError(PacketInt(m.items[1]).v, m.items[2].tag, pr, io)} :
                /\ last' = [read |-> "request", id |-> PacketInt(m.items[1]).v,
                            tag |-> m.items[2].tag, err |-> pr.err, msg |-> pr.msg,
                            out |-> stamp(pr.out \o er.out, srvTLS),
                            backend |-> pr.backend, parseErr |-> pr.parseErr,
                            ioFail |-> IOFailure(io),
                            be |-> IF pr.backend = "none" THEN "notCalled" ELSE be.err,
                            end |-> (er.end \/ pr.panic),
                            oid |-> requestName(m.items[2], pr),
                            results |-> IF pr.backend = "Search" /\ be.err = "nil"
                                        THEN be.results ELSE <<>>,
                            code |-> IF pr.backend = "Search" /\ be.err = "nil"
                                     THEN be.code ELSE ResultSuccess]
                /\ IF pr.panic
                   THEN crash
                   ELSE IF er.end
                   THEN closeConnection
                   ELSE UNCHANGED <<srvState, disconnects>>
                /\ srvTLS' = (srvTLS \/ pr.tls)
                \* a Flush sends all that cli.wr holds; cli.wr.Reset drops it
                /\ IF pr.out # <<>> \/ er.out # <<>>
                   THEN /\ wire' = wire \o wrBuf
                                       \o onWire(pr.out \o pr.buf \o er.out, nRead + 1, srvTLS)
                        /\ wrBuf' = <<>>
                   ELSE /\ wire' = wire
                        /\ wrBuf' = IF pr.tls THEN <<>>
                                     ELSE wrBuf \o onWire(pr.buf, nRead + 1, srvTLS)
    /\ UNCHANGED <<tlsConfig, cliState>>
    /\ UNCHANGED nonSrvVars

NextServer ==
    \/ SrvConnect
    \/ SrvReadFail
    \/ SrvReadPanic
    \/ \E m \in Messages, be \in BackendReturns, io \in IOOutcomes : SrvServe(m, be, io)

\* one server connection; the client of this module stays as NewClient left it
SrvInit == InitClient /\ ~isTLS /\ InitServer /\ NoFunction /\ InitListener

SrvSpec == SrvInit /\ [][NextServer]_vars

(***************************************************************************)
(* Specifications.                                                         *)
(***************************************************************************)
\* one Client; the server connection of this module stays as accepted
Init == InitClient /\ InitServer /\ ~tlsConfig /\ ~srvTLS /\ NoFunction /\ InitListener

Spec == Init /\ [][NextClient]_vars

\* the calls of Serve and Shutdown on one Server
LsnInit ==
    /\ InitClient /\ ~isTLS
    /\ InitServer /\ ~srvTLS
    /\ NoFunction
    /\ InitListener

LsnSpec == LsnInit /\ [][LsnNext]_vars

(***************************************************************************)
(* The client under fair scheduling: every goroutine that can take a step  *)
(* of its own code eventually takes one.  Entering an operation, Close, and *)
(* what the peer and the network do are not forced.                         *)
(***************************************************************************)
CallerStep(c) ==
    \/ StartTLSPutS(c) \/ StartTLSPutR(c) \/ StartTLSRequest(c)
    \/ CallerRecv(c) \/ CallerFinish(c) \/ StartTLSHandshake(c)
    \/ StartTLSReleaseS(c) \/ StartTLSReleaseR(c)

SendStep ==
    \/ \E c \in Callers : SendRecv(c)
    \/ SendWrite \/ SendWriteFail \/ SendClose \/ SendInsert \/ SendSelect

\* a read on a closed connection returns an error
RecvStep ==
    \/ (cnClosed /\ RecvFail)
    \/ RecvLookup \/ RecvDeliver \/ RecvSelect

FairSpec ==
    /\ Spec
    /\ \A c \in Callers : WF_vars(CallerStep(c))
    /\ WF_vars(SendStep)
    /\ WF_vars(RecvStep)

(***************************************************************************)
(* Properties of the client.                                               *)
(***************************************************************************)
\* C1: once the connection is closed (an I/O error on either loop, or Close),
\* every caller that is inside a client operation eventually returns.
C1_BlockedCallersReturn ==
    \A c \in Callers : (cnClosed /\ pc[c] # "idle") ~> (pc[c] = "idle")

\* C2: every ID newID returns is strictly greater than every ID it returned
\* before, and no ID is allocated while it has an entry in the pending map.
C2_IDsIncreaseAndFresh ==
    [][Len(allocated') > Len(allocated) =>
         LET n == allocated'[Len(allocated')] IN
         /\ \A k \in 1..Len(allocated) : allocated[k] < n
         /\ n \notin rmap]_vars

\* two IDs have been allocated and the first still has its map entry
C2_Witness == Len(allocated) >= 2 /\ allocated[1] \in rmap

\* C3 as stated: the k-th request of a new Client carries message ID k.
C3_KthRequestHasIDk == \A k \in 1..Len(allocated) : allocated[k] = k

\* C3, amended: the k-th request of a new Client carries message ID k + 1
\* (the counter starts at 1 and newID returns the incremented value).
C3_KthRequestHasIDkPlus1 == \A k \in 1..Len(allocated) : allocated[k] = k + 1

\* the second request has been written to the transport
C3_Witness == Len(allocated) >= 2 /\ srv[allocated[2]] # "none"

\* C4: once an operation has returned, the pending map holds no entry for its
\* ID: finishMessage removed it and the send loop does not insert it afterwards.
C4_ReturnedIDsNotPending == \A i \in returned : i \notin rmap

\* an operation whose request was written and answered has returned, and the
\* send loop has since inserted the entry of a later request
C4_Witness == \E i \in returned : srv[i] = "done" /\ \E j \in rmap : j > i

\* C5: StartTLS on a client whose connection is already TLS (DialTLS, or an
\* earlier successful StartTLS) returns ErrAlreadyTLS and sends nothing: no
\* call gets past the isTLS check while the connection is TLS.
C5_StartTLSOnTLSRefused ==
    \A c \in Callers :
        (op[c] = "StartTLS" /\ pc[c] \in {"tlsPutS", "tlsPutR", "tlsRequest", "enqueue", "wait"})
            => ~cnTLS

(***************************************************************************)
(* Properties of the server connection.                                    *)
(***************************************************************************)
\* the last packet read was a request with an unknown application tag
UnknownTagServed == last.read = "request" /\ last.tag \notin HandledTags

\* C6 as stated: a request with an unknown application tag gets exactly one
\* UnwillingToPerform reply and then the connection is closed.
C6_UnknownTagReplyThenClose ==
    (UnknownTagServed /\ last.ioFail = "none") =>
        /\ Len(last.out) = 1
        /\ last.out[1].code = ResultUnwillingToPerform
        /\ last.end

\* C6, amended: a request with an unknown application tag gets exactly one
\* UnwillingToPerform reply for its message ID and the connection stays open
\* for the next request; it is closed only when the reply cannot be written.
C6_UnknownTagReplyStaysOpen ==
    UnknownTagServed =>
        /\ last.backend = "none"
        /\ last.ioFail \in {"none", "deadline", "clear"} =>
              /\ Len(last.out) = 1
              /\ last.out[1].code = ResultUnwillingToPerform
              /\ last.out[1].id = last.id
              /\ last.out[1].msg = TextD("unsupported request tag %d", last.tag)
        /\ last.ioFail \in {"write", "errDeadline"} => last.out = <<>>
        /\ last.end <=> last.ioFail \in {"write", "errDeadline", "clear"}

\* an unknown tag has been answered on a connection whose transport works
C6_Witness ==
    UnknownTagServed /\ last.ioFail = "none" /\ Len(last.out) = 1 /\ srvState = "serving"

\* C7: the server writes nothing in response to an AbandonRequest.
C7_NoReplyToAbandon ==
    (last.read = "request" /\ last.tag = ApplicationAbandonRequest) => last.out = <<>>

\* C8: when a request's parser fails with a ProtocolError the backend is not
\* called, and (the transport working) exactly one reply is written, with
\* result code ProtocolError, the error's text as its message and the
\* request's message ID, and the connection stays open for the next request.
C8_ParseErrorReplyStaysOpen ==
    (last.read = "request" /\ last.parseErr = "ProtocolError") =>
        /\ last.backend = "none"
        /\ last.msg.text # ""
        /\ last.ioFail \in {"none", "deadline"} =>
              /\ Len(last.out) = 1
              /\ last.out[1].code = ResultProtocolError
              /\ last.out[1].msg = last.msg
              /\ last.out[1].id = last.id
              /\ ~last.end

\* a BindRequest with version 2 has been refused on a working transport
C8_Witness ==
    /\ last.read = "request" /\ last.parseErr = "ProtocolError" /\ last.ioFail = "none"
    /\ last.tag = ApplicationBindRequest
    /\ last.msg = Text("unsupported or invalid version")
    /\ Len(last.out) = 1
    /\ srvState = "serving"

\* C9: when a Backend method returns an error that is neither a ProtocolError
\* nor an UnsupportedRequestTagError, (the transport working) one reply with
\* result code Other is written for the message ID and the connection ends.
C9_BackendErrorReplyThenClose ==
    (/\ last.read = "request"
     /\ last.be \notin {"notCalled", "nil", "ProtocolError", "UnsupportedRequestTagError"}
     /\ last.ioFail = "none") =>
        /\ Len(last.out) = 1
        /\ last.out[1].code = ResultOther
        /\ last.out[1].id = last.id
        /\ last.end

\* C10: a CompareRequest is parsed, handed to the backend and answered with
\* the backend's response, as Add, Delete, Modify and ModifyDN are.
C10_CompareReachesBackend ==
    (last.read = "request" /\ last.tag = ApplicationCompareRequest /\ last.ioFail = "none") =>
        /\ last.backend # "none"
        /\ Len(last.out) = 1
        /\ last.out[1].tag = ApplicationCompareResponse
        /\ last.out[1].code # ResultUnwillingToPerform


(***************************************************************************)
(* Properties of the server connection: order, lifetime, StartTLS.         *)
(***************************************************************************)
\* C11: one operation at a time on a connection: when the next packet is
\* read nothing written for an earlier request is still unflushed, and every
\* message that leaves the connection during a round of serve belongs to the
\* request read in that round and follows all messages of earlier requests.
C11_ResponsesInRequestOrder ==
    [][/\ nRead' # nRead => wrBuf = <<>>
       /\ Len(wire') >= Len(wire)
       /\ SubSeq(wire', 1, Len(wire)) = wire
       /\ \A k \in (Len(wire) + 1)..Len(wire') : wire'[k].seq = nRead']_vars

\* two requests have been answered, one after the other
C11_Witness ==
    /\ nRead = 2 /\ Len(wire) >= 2
    /\ wire[1].seq = 1 /\ wire[Len(wire)].seq = 2


\* C12 as stated: on a connection whose Connect succeeded, Disconnect is
\* called exactly once when the connection ends, whatever state Connect
\* returned; when Connect failed it is never called.
C12_DisconnectOnceAnyState ==
    /\ srvState \in {"accepted", "serving"} => disconnects = 0
    /\ (srvState \in {"closed", "crashed"} /\ cliState = "none") => disconnects = 0
    /\ (srvState \in {"closed", "crashed"} /\ cliState # "none") => disconnects = 1

\* C12, amended: on a connection whose Connect succeeded with a non-nil
\* state, Disconnect is called exactly once, when the connection ends (read
\* error, Unbind, fatal error, panic); when Connect failed or returned a nil
\* state, Disconnect is never called.  The connection is closed in all cases.
C12_DisconnectOnceNonNilState ==
    /\ srvState \in {"accepted", "serving"} => disconnects = 0
    /\ (srvState \in {"closed", "crashed"} /\ cliState \in {"none", "nil"}) => disconnects = 0
    /\ (srvState \in {"closed", "crashed"} /\ cliState = "state") => disconnects = 1

\* a connection with a non-nil state has ended on an Unbind after an earlier
\* request was served, and Disconnect has been called
C12_Witness ==
    /\ srvState = "closed" /\ cliState = "state" /\ disconnects = 1
    /\ nRead = 2 /\ last.read = "request" /\ last.tag = ApplicationUnbindRequest


\* the last packet read was a StartTLS request and the server has a TLS
\* configuration
StartTLSServed == last.read = "request" /\ last.oid = OIDStartTLS /\ tlsConfig

\* C13: a StartTLS request handled with a TLS configuration present gets
\* exactly one response, the success ExtendedResponse, written and flushed on
\* the stream as the request was read from it (the cleartext stream when the
\* connection was cleartext) before the stream is wrapped; from then on the
\* connection is TLS, and every later read and every later message written
\* goes through TLS.
C13_StartTLSReplyThenWrap ==
    [][/\ (nRead' # nRead /\ StartTLSServed' /\ last'.ioFail # "write") =>
              /\ Len(last'.out) = 1
              /\ last'.out[1].id = last'.id
              /\ last'.out[1].tag = ApplicationExtendedResponse
              /\ last'.out[1].code = ResultSuccess
              /\ last'.out[1].name = OIDStartTLS
              /\ last'.out[1].tls = srvTLS
              /\ wire' = Append(wire, [seq |-> nRead', tls |-> srvTLS])
              /\ reads'[nRead'] = srvTLS
              /\ srvTLS'
              /\ ~last'.end
       /\ srvTLS =>
              /\ srvTLS'
              /\ \A k \in (Len(reads) + 1)..Len(reads') : reads'[k]
              /\ \A k \in (Len(wire) + 1)..Len(wire') : wire'[k].tls]_vars

\* on a connection that began in cleartext, StartTLS was answered in
\* cleartext and the next request was read and answered through TLS
C13_Witness ==
    /\ tlsConfig /\ nRead = 2 /\ reads = <<FALSE, TRUE>>
    /\ Len(wire) >= 2 /\ wire[1] = [seq |-> 1, tls |-> FALSE]
    /\ wire[2] = [seq |-> 2, tls |-> TRUE]
    /\ last.read = "request" /\ last.out # <<>> /\ last.out[1].tls


(***************************************************************************)
(* The server: the root DSE.  Attribute names are compared letter by       *)
(* letter, so here a name is the sequence of its characters.               *)
(***************************************************************************)
UpperCase == <<"A", "B", "C", "D", "E", "F", "G", "H", "I", "J", "K", "L", "M",
               "N", "O", "P", "Q", "R", "S", "T", "U", "V", "W", "X", "Y", "Z">>
LowerCase == <<"a", "b", "c", "d", "e", "f", "g", "h", "i", "j", "k", "l", "m",
               "n", "o", "p", "q", "r", "s", "t", "u", "v", "w", "x", "y", "z">>

\* strings.ToLower
ToLower(s) ==
    [k \in 1..Len(s) |->
        IF \E i \in 1..Len(UpperCase) : UpperCase[i] = s[k]
        THEN LowerCase[CHOOSE i \in 1..Len(UpperCase) : UpperCase[i] = s[k]]
        ELSE s[k]]

OIDModifyIncrement == "1.3.6.1.1.14"
OIDAllOperationalAttributes == "1.3.6.1.4.1.4203.1.5.1"

supportedLDAPVersion == <<"s", "u", "p", "p", "o", "r", "t", "e", "d", "L", "D", "A", "P", "V", "e", "r", "s", "i", "o", "n">>
supportedFeatures == <<"s", "u", "p", "p", "o", "r", "t", "e", "d", "F", "e", "a", "t", "u", "r", "e", "s">>
supportedExtension == <<"s", "u", "p", "p", "o", "r", "t", "e", "d", "E", "x", "t", "e", "n", "s", "i", "o", "n">>
supportedSASLMechanisms == <<"s", "u", "p", "p", "o", "r", "t", "e", "d", "S", "A", "S", "L", "M", "e", "c", "h", "a", "n", "i", "s", "m", "s">>
objectClass == <<"o", "b", "j", "e", "c", "t", "C", "l", "a", "s", "s">>

\* var RootDSE
RootDSE ==
    [name \in {supportedLDAPVersion, supportedFeatures, supportedExtension,
               supportedSASLMechanisms} |->
        CASE name = supportedLDAPVersion -> <<"3">>
          [] name = supportedFeatures -> <<OIDModifyIncrement, OIDAllOperationalAttributes>>
          [] name = supportedExtension -> <<OIDWhoAmI, OIDPasswordModify>>
          [] name = supportedSASLMechanisms -> <<>>]

\* NewServer: Server.RootDSE is a copy of RootDSE, with StartTLS among the
\* supported extensions when there is a tlsConfig
NewServerRootDSE(tlsCfg) ==
    IF tlsCfg
    THEN [RootDSE EXCEPT ![supportedExtension] = Append(@, OIDStartTLS)]
    ELSE RootDSE

\* srvClient.rootDSE, for the requested attributes req.Attributes (the names
\* as parseSearchRequest stored them) and cli.srv.RootDSE: the one result
rootDSE(attributes, dse) ==
    [DN |-> "",
     Attributes |->
        IF attributes = {}
        THEN [name \in {objectClass} |-> <<"top">>]
        ELSE [name \in {n \in DOMAIN dse :
                           \/ <<"+">> \in attributes
                           \/ ToLower(n) \in attributes} |-> dse[name]]]

\* attribute names a search for the root DSE may request
RequestedNames ==
    {supportedLDAPVersion, ToLower(supportedLDAPVersion), <<"S", "U", "P", "P", "O", "R", "T", "E", "D", "L", "D", "A", "P", "V", "E", "R", "S", "I", "O", "N">>,
     supportedExtension, ToLower(supportedSASLMechanisms), <<"+">>, <<"c", "n">>}

\* root DSE searches: the requested attributes, and whether the server has a
\* tlsConfig
RootDSEInputs ==
    {[kind |-> "rootDSE", attributes |-> as, tlsCfg |-> t] :
        as \in SUBSET RequestedNames, t \in BOOLEAN}

ApplyRootDSE ==
    /\ fn = "none"
    /\ arg.kind = "rootDSE"
    /\ fn' = "rootDSE"
    /\ ret' = rootDSE(arg.attributes, NewServerRootDSE(arg.tlsCfg))
    /\ UNCHANGED arg
    /\ UNCHANGED nonFnVars

(***************************************************************************)
(* BER: Packet.Size, Packet.write, ParsePacket, ReadPacket over bytes.     *)
(* Here a []byte and a string are the sequence of their bytes.             *)
(***************************************************************************)
maxPacketSize == 33554432
TagPrintableString == 19

RECURSIVE ByteLen(_)
\* how many times x >= 0 is shifted right by 8 bits until it is 0
ByteLen(x) == IF x = 0 THEN 0 ELSE 1 + ByteLen(x \div 256)

RECURSIVE Pow256(_)
Pow256(n) == IF n = 0 THEN 1 ELSE 256 * Pow256(n - 1)

\* the n low bytes of x >= 0, most significant first
BigEndian(x, n) == [i \in 1..n |-> (x \div Pow256(n - i)) % 256]

\* intSize(int64(v)): the loop runs on uint64(v), which for a negative v has
\* its top byte set
intSize(v) == IF v < 0 THEN 8 ELSE IF v = 0 THEN 1 ELSE ByteLen(v)

RECURSIVE SumTotals(_)
SumTotals(sizes) ==
    IF sizes = <<>> THEN 0 ELSE Head(sizes).total + SumTotals(Tail(sizes))

\* the first error of a sequence of results, "nil" if there is none
FirstErr(rs) ==
    IF \E k \in 1..Len(rs) : rs[k].err # "nil"
    THEN rs[CHOOSE k \in 1..Len(rs) :
               rs[k].err # "nil" /\ \A j \in 1..(k - 1) : rs[j].err = "nil"].err
    ELSE "nil"

\* Packet.Size: the size of the data and the size with the header
Sized(size) ==
    [err |-> "nil", size |-> size,
     total |-> IF size < 128 THEN size + 2 ELSE size + 2 + ByteLen(size)]

RECURSIVE Size(_)
Size(p) ==
    IF p.prim
    THEN IF p.val.t = "nil"
         THEN [err |-> "ldap: nil value in Packet.Size", size |-> 0, total |-> 0]
         ELSE Sized(CASE p.val.t \in {"bytes", "string"} -> Len(p.val.s)
                      [] p.val.t = "int" -> intSize(p.val.i)
                      [] p.val.t = "bool" -> 1)
    ELSE LET sizes == [k \in 1..Len(p.items) |-> Size(p.items[k])] IN
         IF FirstErr(sizes) # "nil"
         THEN [err |-> FirstErr(sizes), size |-> 0, total |-> 0]
         ELSE Sized(SumTotals(sizes))

\* the bytes Packet.write emits for a primitive value: an int is written with
\* as many bytes as the loop `for x := v; x > 0; x >>= 8` counts
valueBytes(v) ==
    CASE v.t \in {"bytes", "string"} -> v.s
      [] v.t = "int" -> IF v.i = 0 THEN <<0>>
                        ELSE IF v.i < 0 THEN <<>>
                        ELSE BigEndian(v.i, ByteLen(v.i))
      [] v.t = "bool" -> IF v.b THEN <<255>> ELSE <<0>>

\* the identifier and length bytes
headerBytes(p, sz) ==
    <<((p.class * 64) % 256) + (IF p.prim THEN 0 ELSE 32) + (p.tag % 32)>>
        \o (IF sz < 128 THEN <<sz>>
            ELSE <<128 + ByteLen(sz)>> \o BigEndian(sz, ByteLen(sz)))

RECURSIVE ConcatBytes(_)
\* what the writes of the items put on w, up to the first that fails
ConcatBytes(ws) ==
    IF ws = <<>> THEN <<>>
    ELSE IF Head(ws).err # "nil" THEN Head(ws).bytes
    ELSE Head(ws).bytes \o ConcatBytes(Tail(ws))

RECURSIVE Itoa(_)
\* the decimal digits of n, as %d formats an int
Itoa(n) ==
    IF n < 0 THEN "-" \o Itoa(0 - n)
    ELSE IF n < 10 THEN <<"0", "1", "2", "3", "4", "5", "6", "7", "8", "9">>[n + 1]
    ELSE Itoa(n \div 10) \o Itoa(n % 10)

RECURSIVE write(_)
\* Packet.write: the error it returns and the bytes it has written to w
write(p) ==
    LET sz == Size(p) IN
    IF sz.err # "nil" THEN [err |-> sz.err, bytes |-> <<>>]
    ELSE IF sz.total > maxPacketSize
    THEN [err |-> "ldap: packet larger than max size (" \o Itoa(sz.total) \o " > "
                      \o Itoa(maxPacketSize) \o ")",
          bytes |-> <<>>]
    ELSE IF p.prim
    THEN [err |-> "nil", bytes |-> headerBytes(p, sz.size) \o valueBytes(p.val)]
    ELSE IF p.val.t # "nil"
    THEN [err |-> "ldap: non-primitive type has a value", bytes |-> headerBytes(p, sz.size)]
    ELSE LET ws == [k \in 1..Len(p.items) |-> write(p.items[k])] IN
         [err |-> FirstErr(ws), bytes |-> headerBytes(p, sz.size) \o ConcatBytes(ws)]

\* Packet.Encode: the bytes, or nil and the error
Encode(p) ==
    LET w == write(p) IN
    IF w.err # "nil" THEN [err |-> w.err, bytes |-> <<>>] ELSE w

\* the loop `dataLen = (dataLen << 8) | int(buf[i])` over the length bytes, in
\* a 64-bit int: the eight bytes of dataLen, most significant first
int64Bytes(bs) ==
    LET padded == <<0, 0, 0, 0, 0, 0, 0, 0>> \o bs IN
    SubSeq(padded, Len(padded) - 7, Len(padded))

\* dataLen after the loop: whether it is negative, whether it is positive and
\* above maxPacketSize, and otherwise its value
decodeLength(bs) ==
    LET d == int64Bytes(bs)
        neg == d[1] >= 128
        small == d[1] = 0 /\ d[2] = 0 /\ d[3] = 0 /\ d[4] = 0 /\ d[5] < 128
        val == IF small THEN ((d[5] * 256 + d[6]) * 256 + d[7]) * 256 + d[8] ELSE 0
    IN  [neg |-> neg,
         over |-> ~neg /\ (~small \/ val > maxPacketSize),
         val |-> val]

\* what ParsePacket and ReadPacket return: the packet and the bytes consumed,
\* an error, or a panic (slice bounds out of range)
Parsed(pkt, n) == [st |-> "ok", msg |-> "", v |-> pkt, n |-> n]
ParseErr(st, msg, n) == [st |-> st, msg |-> msg, v |-> <<>>, n |-> n]
SlicePanic == [st |-> "panic", msg |-> "slice bounds out of range", v |-> <<>>, n |-> 0]

RECURSIVE runeBytes(_)
\* string(runes) for runes made of single bytes: UTF-8 of each
runeBytes(data) ==
    IF data = <<>> THEN <<>>
    ELSE (IF Head(data) < 128 THEN <<Head(data)>>
          ELSE <<192 + (Head(data) \div 64), 128 + (Head(data) % 64)>>)
         \o runeBytes(Tail(data))

RECURSIVE unsigned(_, _)
\* the number the bytes bs spell after the digits of x, most significant first
unsigned(x, bs) ==
    IF bs = <<>> THEN x ELSE unsigned(x * 256 + Head(bs), Tail(bs))

\* the eight bytes of the int64 i, most significant first (two's complement)
bytesOfInt64(i) ==
    IF i >= 0 THEN <<0, 0, 0, 0>> \o BigEndian(i, 4)
    ELSE <<255, 255, 255, 255>> \o [k \in 1..4 |-> 255 - BigEndian(-(i + 1), 4)[k]]

\* the int64 whose eight bytes are d
int64Of(d) ==
    IF d[1] < 128 THEN unsigned(0, d)
    ELSE -(unsigned(0, [k \in 1..8 |-> 255 - d[k]])) - 1

\* i = (i << 8) | int(b) over the bytes, in a 64-bit int: the bits shifted
\* out at the top are lost, and a set top bit makes the number negative
foldInt(i, data) == int64Of(int64Bytes(bytesOfInt64(i) \o data))

\* parseValue: the value of a universal primitive
parseValue(tag, data) ==
    IF tag = TagBoolean
    THEN IF Len(data) # 1
         THEN [err |-> "ldap: bool other than 1", v |-> NilV]
         ELSE [err |-> "nil", v |-> BoolV(data[1] # 0)]
    ELSE IF tag \in {TagInteger, TagEnumerated}
    THEN [err |-> "nil", v |-> IntV(foldInt(0, data))]
    ELSE IF tag = TagPrintableString
    THEN [err |-> "nil", v |-> StrV(runeBytes(data))]
    ELSE IF tag = TagUTF8String
    THEN [err |-> "nil", v |-> StrV(data)]
    ELSE [err |-> "nil", v |-> BytesV(data)]

RECURSIVE ParsePacket(_)
RECURSIVE parseItems(_, _, _)

\* the loop over the data of a constructed packet; used is hdr + dataLen -
\* len(data)
parseItems(data, items, used) ==
    IF data = <<>> THEN Parsed(items, used)
    ELSE LET it == ParsePacket(data) IN
         IF it.st # "ok" THEN [it EXCEPT !.n = used + it.n]
         ELSE parseItems(SubSeq(data, it.n + 1, Len(data)), Append(items, it.v),
                         used + it.n)

\* the packet once its header and dataLen are known
parseBody(buf, hdr, dataLen) ==
    LET data == SubSeq(buf, hdr + 1, hdr + dataLen)
        class == buf[1] \div 64
        primitive == (buf[1] \div 32) % 2 = 0
        tag == buf[1] % 32
    IN  IF primitive
        THEN IF class = ClassUniversal
             THEN LET pv == parseValue(tag, data) IN
                  IF pv.err # "nil"
                  THEN ParseErr("InvalidBEREncodingError", pv.err, hdr + dataLen)
                  ELSE Parsed(NewPacket(class, TRUE, tag, pv.v, <<>>), hdr + dataLen)
             ELSE Parsed(NewPacket(class, TRUE, tag, BytesV(data), <<>>), hdr + dataLen)
        ELSE LET its == parseItems(data, <<>>, hdr) IN
             IF its.st # "ok" THEN its
             ELSE Parsed(NewPacket(class, FALSE, tag, NilV, its.v), hdr + dataLen)

ParsePacket(buf) ==
    IF Len(buf) < 2
    THEN ParseErr("InvalidBEREncodingError", "ldap: short packet", 0)
    ELSE IF buf[2] < 128
    THEN IF buf[2] > Len(buf) - 2
         THEN ParseErr("InvalidBEREncodingError", "ldap: short packet", 2)
         ELSE parseBody(buf, 2, buf[2])
    ELSE LET n == buf[2] - 128 IN
         IF n = 0
         THEN ParseErr("InvalidBEREncodingError",
                       "ldap: indefinite form for length not supported", 2)
         ELSE IF n > 8
         THEN ParseErr("InvalidBEREncodingError",
                       "ldap: number of size bytes failed sanity check", 2)
         ELSE IF Len(buf) < 2 + n
         THEN ParseErr("InvalidBEREncodingError", "ldap: short packet", 2)
         ELSE LET dl == decodeLength(SubSeq(buf, 3, 2 + n)) IN
              IF dl.over
              THEN ParseErr("InvalidBEREncodingError",
                            "ldap: packet larger than max allowed size", 2 + n)
              ELSE IF dl.neg
              \* dataLen > len(buf)-hdr is false, buf[hdr : hdr+dataLen] panics
              THEN SlicePanic
              ELSE IF dl.val > Len(buf) - (2 + n)
              THEN ParseErr("InvalidBEREncodingError", "ldap: short packet", 2 + n)
              ELSE parseBody(buf, 2 + n, dl.val)

\* io.ReadFull of want bytes when the reader holds have more bytes
readFullErr(have, want) ==
    IF have >= want THEN "nil" ELSE IF have = 0 THEN "EOF" ELSE "ErrUnexpectedEOF"

\* ReadPacket from a reader that holds the bytes rd and then ends
ReadPacket(rd) ==
    IF readFullErr(Len(rd), 2) # "nil"
    THEN ParseErr(readFullErr(Len(rd), 2), "", Len(rd))
    ELSE IF rd[2] < 128
    THEN IF readFullErr(Len(rd) - 2, rd[2]) # "nil"
         THEN ParseErr(readFullErr(Len(rd) - 2, rd[2]), "", Len(rd))
         ELSE ParsePacket(SubSeq(rd, 1, 2 + rd[2]))
    ELSE LET nl == rd[2] - 128 IN
         IF nl = 0
         THEN ParseErr("InvalidBEREncodingError",
                       "ldap: indefinite form for length not supported", 2)
         ELSE IF nl > 8
         THEN ParseErr("InvalidBEREncodingError",
                       "ldap: number of size bytes failed sanity check", 2)
         ELSE IF readFullErr(Len(rd) - 2, nl) # "nil"
         THEN ParseErr(readFullErr(Len(rd) - 2, nl), "", Len(rd))
         ELSE LET dl == decodeLength(SubSeq(rd, 3, 2 + nl)) IN
              IF dl.over
              THEN ParseErr("InvalidBEREncodingError",
                            "ldap: packet larger than max allowed size", 2 + nl)
              ELSE IF dl.neg
              \* total = dataLen + hdr: buf[:total] or buf[hdr:total] panics
              THEN SlicePanic
              ELSE IF readFullErr(Len(rd) - (2 + nl), dl.val) # "nil"
              THEN ParseErr(readFullErr(Len(rd) - (2 + nl), dl.val), "", Len(rd))
              ELSE ParsePacket(SubSeq(rd, 1, 2 + nl + dl.val))

\* a byte string long enough for the long form of the length
LongBytes == [i \in 1..130 |-> i % 256]

\* primitive packets a caller of NewPacket builds: values of each type under
\* the tags the library uses them with, and a packet without a value
PrimitivePackets ==
    {NewPacket(ClassUniversal, TRUE, TagInteger, IntV(n), <<>>) :
        n \in {0, 1, 127, 128, 255, 256, 4660, 65535, -1}}
    \cup {NewPacket(ClassUniversal, TRUE, TagEnumerated, IntV(2), <<>>),
          NewPacket(ClassUniversal, TRUE, TagInteger, NilV, <<>>)}
    \cup {NewPacket(ClassUniversal, TRUE, TagBoolean, BoolV(b), <<>>) : b \in BOOLEAN}
    \cup {NewPacket(ClassUniversal, TRUE, TagOctetString, v, <<>>) :
             v \in {BytesV(<<>>), BytesV(<<0>>), BytesV(<<99, 110>>), BytesV(LongBytes),
                    StrV(<<99, 110>>)}}
    \cup {NewPacket(ClassUniversal, TRUE, TagUTF8String, StrV(<<84, 101>>), <<>>),
          NewPacket(ClassUniversal, TRUE, TagPrintableString, StrV(<<84, 101>>), <<>>),
          NewPacket(ClassContext, TRUE, 0, BytesV(<<112, 119>>), <<>>),
          NewPacket(ClassContext, TRUE, 0, StrV(<<112, 119>>), <<>>),
          NewPacket(ClassContext, TRUE, 33, BytesV(<<1>>), <<>>),
          NewPacket(ClassApplication, TRUE, ApplicationDelRequest, BytesV(<<99>>), <<>>)}

\* the items the constructed packets below are made of
ItemPackets ==
    {NewPacket(ClassUniversal, TRUE, TagInteger, IntV(4660), <<>>),
     NewPacket(ClassUniversal, TRUE, TagInteger, IntV(-1), <<>>),
     NewPacket(ClassUniversal, TRUE, TagBoolean, BoolV(TRUE), <<>>),
     NewPacket(ClassUniversal, TRUE, TagOctetString, BytesV(<<99, 110>>), <<>>),
     NewPacket(ClassUniversal, TRUE, TagOctetString, BytesV(LongBytes), <<>>),
     NewPacket(ClassUniversal, TRUE, TagUTF8String, StrV(<<84, 101>>), <<>>)}

ConstructedPackets ==
    {NewPacket(ClassUniversal, FALSE, TagSequence, NilV, <<>>),
     NewPacket(ClassUniversal, FALSE, TagSequence, IntV(1), <<>>)}
    \cup {NewPacket(ClassUniversal, FALSE, TagSequence, NilV, <<p>>) : p \in ItemPackets}
    \cup {NewPacket(ClassUniversal, FALSE, TagSequence, NilV, <<p, q>>) :
             p \in ItemPackets, q \in ItemPackets}
    \cup {NewPacket(ClassApplication, FALSE, ApplicationSearchRequest, NilV,
                    <<NewPacket(ClassUniversal, FALSE, TagSet, NilV, <<p>>), q>>) :
             p \in ItemPackets, q \in ItemPackets}

PacketInputs ==
    {[kind |-> "packet", pkt |-> p] : p \in PrimitivePackets \cup ConstructedPackets}

\* Packet.Encode, then ParsePacket and ReadPacket of the bytes
ApplyEncodeParse ==
    /\ fn = "none"
    /\ arg.kind = "packet"
    /\ fn' = "EncodeParse"
    /\ \E enc \in {Encode(arg.pkt)} :
          ret' = [enc |-> enc,
                  parse |-> IF enc.err = "nil" THEN ParsePacket(enc.bytes) ELSE SlicePanic,
                  read |-> IF enc.err = "nil" THEN ReadPacket(enc.bytes) ELSE SlicePanic]
    /\ UNCHANGED arg
    /\ UNCHANGED nonFnVars

\* length bytes of the long form: a first byte, the others all alike
LengthBytes ==
    {[i \in 1..nl |-> IF i = 1 THEN first ELSE rest] :
        nl \in 1..8, first \in {0, 1, 2, 3, 127, 128, 255}, rest \in {0, 1, 255}}

\* what a peer sends: the identifier of a sequence, a length in the short
\* form, the long form with 1 to 8 length bytes, the indefinite form or more
\* than 8 length bytes, followed by nothing or by three bytes (a boolean)
ByteInputs ==
    {[kind |-> "bytes", bytes |-> <<48>> \o len \o payload] :
        len \in {<<128 + Len(bs)>> \o bs : bs \in LengthBytes}
                \cup {<<0>>, <<3>>, <<5>>, <<128>>, <<137, 0, 0, 0, 0, 0, 0, 0, 0, 3>>},
        payload \in {<<>>, <<1, 1, 255>>}}
    \cup {[kind |-> "bytes", bytes |-> bs] : bs \in {<<>>, <<48>>}}
    \* integers of two, eight and nine bytes
    \cup {[kind |-> "bytes", bytes |-> bs] :
             bs \in {<<2, 2, 97, 98>>,
                     <<2, 8, 255, 255, 255, 255, 255, 255, 255, 255>>,
                     <<2, 8, 255, 255, 255, 255, 255, 255, 255, 0>>,
                     <<2, 9, 1, 0, 0, 0, 0, 0, 0, 0, 0>>,
                     <<2, 9, 1, 0, 0, 0, 0, 0, 0, 0, 7>>}}

\* ParsePacket and ReadPacket of bytes a peer sends
ApplyParsePacket ==
    /\ fn = "none"
    /\ arg.kind = "bytes"
    /\ fn' = "ParsePacket"
    /\ ret' = [parse |-> ParsePacket(arg.bytes), read |-> ReadPacket(arg.bytes)]
    /\ UNCHANGED arg
    /\ UNCHANGED nonFnVars

(***************************************************************************)
(* Filters as text: Filter.String, filterEscape, ParseFilter.  Here a      *)
(* string is the sequence of its runes, a rune is its code point, and a    *)
(* filter is a record with its kind and the fields of its struct.          *)
(***************************************************************************)
\* the printable ASCII characters in the order of their code points: the 64
\* from the space (32) to the underscore (95), then the 30 from a (97) to the
\* tilde (126).  The grave accent (96) is not a character of this model: no
\* string here holds it and no function here is defined on it.
ASCII ==
    <<" ", "!", "\"", "#", "$", "%", "&", "'", "(", ")", "*", "+", ",", "-",
      ".", "/", "0", "1", "2", "3", "4", "5", "6", "7", "8", "9", ":", ";",
      "<", "=", ">", "?", "@", "A", "B", "C", "D", "E", "F", "G", "H", "I",
      "J", "K", "L", "M", "N", "O", "P", "Q", "R", "S", "T", "U", "V", "W",
      "X", "Y", "Z", "[", "\\", "]", "^", "_", "a", "b", "c", "d",
      "e", "f", "g", "h", "i", "j", "k", "l", "m", "n", "o", "p", "q", "r",
      "s", "t", "u", "v", "w", "x", "y", "z", "{", "|", "}", "~">>

\* string(rune(b)): the character of the code point b
char == [b \in (32..95) \cup (97..126) |-> ASCII[IF b < 96 THEN b - 31 ELSE b - 32]]

\* the code point of each of these characters
rune == [c \in {ASCII[k] : k \in DOMAIN ASCII} |->
            CHOOSE b \in DOMAIN char : char[b] = c]

\* []rune(`...`) of the characters cs
Runes(cs) == [i \in DOMAIN cs |-> rune[cs[i]]]

\* utf8.RuneError
RuneError == 65533

\* var escapes
escapes ==
    (rune["("] :> Runes(<<"\\", "2", "8">>))
    @@ (rune[")"] :> Runes(<<"\\", "2", "9">>))
    @@ (rune["&"] :> Runes(<<"\\", "2", "6">>))
    @@ (rune["|"] :> Runes(<<"\\", "3", "c">>))
    @@ (rune["="] :> Runes(<<"\\", "3", "d">>))
    @@ (rune[">"] :> Runes(<<"\\", "3", "e">>))
    @@ (rune["<"] :> Runes(<<"\\", "3", "c">>))
    @@ (rune["~"] :> Runes(<<"\\", "7", "e">>))
    @@ (rune["*"] :> Runes(<<"\\", "2", "a">>))
    @@ (rune["/"] :> Runes(<<"\\", "2", "f">>))
    @@ (rune["\\"] :> Runes(<<"\\", "5", "c">>))

RECURSIVE filterEscape(_)
filterEscape(s) ==
    IF s = <<>> THEN <<>>
    ELSE (IF Head(s) \in DOMAIN escapes THEN escapes[Head(s)] ELSE <<Head(s)>>)
         \o filterEscape(Tail(s))

\* strings.Join(parts, sep)
RECURSIVE Join(_, _)
Join(parts, sep) ==
    IF parts = <<>> THEN <<>>
    ELSE IF Len(parts) = 1 THEN parts[1]
    ELSE parts[1] \o sep \o Join(Tail(parts), sep)

\* the String method of each filter type
RECURSIVE String(_)
String(f) ==
    IF f.kind = "AND"
    THEN Runes(<<"(", "&">>) \o Join([i \in DOMAIN f.Filters |-> String(f.Filters[i])], <<>>)
         \o Runes(<<")">>)
    ELSE IF f.kind = "OR"
    THEN Runes(<<"(", "|">>) \o Join([i \in DOMAIN f.Filters |-> String(f.Filters[i])], <<>>)
         \o Runes(<<")">>)
    ELSE IF f.kind = "NOT"
    THEN Runes(<<"(", "!">>) \o String(f.Filter) \o Runes(<<")">>)
    ELSE IF f.kind = "Present"
    THEN Runes(<<"(">>) \o filterEscape(f.Attribute) \o Runes(<<"=", "*", ")">>)
    ELSE IF f.kind = "Substrings"
    THEN Runes(<<"(">>) \o filterEscape(f.Attribute) \o Runes(<<"=">>)
         \o Join(<<filterEscape(f.Initial)>>
                 \o [i \in DOMAIN f.Any |-> filterEscape(f.Any[i])]
                 \o <<filterEscape(f.Final)>>, Runes(<<"*">>))
         \o Runes(<<")">>)
    ELSE Runes(<<"(">>) \o filterEscape(f.Attribute)
         \o (IF f.kind = "EqualityMatch" THEN Runes(<<"=">>)
             ELSE IF f.kind = "GreaterOrEqual" THEN Runes(<<">", "=">>)
             ELSE IF f.kind = "LessOrEqual" THEN Runes(<<"<", "=">>)
             ELSE Runes(<<"~", "=">>))
         \o filterEscape(f.Value) \o Runes(<<")">>)

\* type tokenizer: s, the position behind the runes read, the character position
tokenizer(s) == [s |-> s, pos |-> 0, cpos |-> 0]

\* tokenizer.next: the rune read and the tokenizer after it
next(t) ==
    IF t.pos = Len(t.s) THEN [r |-> 0, tok |-> t]
    ELSE [r |-> t.s[t.pos + 1], tok |-> [t EXCEPT !.pos = @ + 1, !.cpos = @ + 1]]

\* what parseFilter returns: a filter, nil (the list is closed) or an error
FilterOk(f, tok) == [st |-> "ok", f |-> f, tok |-> tok, Pos |-> 0, Msg |-> ""]
FilterNil(tok) == [st |-> "nil", f |-> <<>>, tok |-> tok, Pos |-> 0, Msg |-> ""]
ErrFilterSyntaxError(pos, msg, tok) ==
    [st |-> "ErrFilterSyntaxError", f |-> <<>>, tok |-> tok, Pos |-> pos, Msg |-> msg]

\* the value of a hex digit, -1 for any other rune
hexValue(r) ==
    IF r \in rune["0"]..rune["9"] THEN r - rune["0"]
    ELSE IF r \in rune["a"]..rune["f"] THEN r - rune["a"] + 10
    ELSE IF r \in rune["A"]..rune["F"] THEN r - rune["A"] + 10
    ELSE -1

\* strconv.ParseInt(h, 16, 8) of the two runes h: a sign and a digit, or two
\* digits that fit an int8
ParseInt(h) ==
    IF h[1] \in {rune["+"], rune["-"]}
    THEN IF hexValue(h[2]) < 0 THEN [err |-> "invalid syntax", n |-> 0]
         ELSE [err |-> "nil",
               n |-> IF h[1] = rune["-"] THEN 0 - hexValue(h[2]) ELSE hexValue(h[2])]
    ELSE IF hexValue(h[1]) < 0 \/ hexValue(h[2]) < 0
    THEN [err |-> "invalid syntax", n |-> 0]
    ELSE IF hexValue(h[1]) * 16 + hexValue(h[2]) > 127
    THEN [err |-> "value out of range", n |-> 127]
    ELSE [err |-> "nil", n |-> hexValue(h[1]) * 16 + hexValue(h[2])]

RECURSIVE Quote(_)
\* strconv.Quote(h) without its outer quotes, for printable ASCII runes: a
\* backslash is written before a backslash and before a double quote
Quote(h) ==
    IF h = <<>> THEN ""
    ELSE (IF Head(h) \in {rune["\\"], rune["\""]} THEN "\\" ELSE "")
         \o char[Head(h)] \o Quote(Tail(h))

\* err.Error() of the *strconv.NumError that ParseInt(h, 16, 8) returns
NumError(h, err) == "strconv.ParseInt: parsing \"" \o Quote(h) \o "\": " \o err

\* the case '\\' of both loops: the rune of the hex code behind the backslash
hexCode(tok) ==
    LET code(n1, n2) ==
            IF n1.r \in {0, RuneError} \/ n2.r \in {0, RuneError}
            THEN [st |-> "err", n |-> 0, tok |-> n2.tok, Pos |-> n2.tok.cpos,
                  Msg |-> "unxpected end of filter"]
            ELSE LET p == ParseInt(<<n1.r, n2.r>>) IN
                 IF p.err # "nil"
                 THEN [st |-> "err", n |-> 0, tok |-> n2.tok, Pos |-> n2.tok.cpos - 2,
                       Msg |-> "unable to parse hex code: "
                                   \o NumError(<<n1.r, n2.r>>, p.err)]
                 ELSE [st |-> "ok", n |-> p.n, tok |-> n2.tok, Pos |-> 0, Msg |-> ""]
    IN  code(next(tok), next(next(tok).tok))

\* the loop `for op == ""`: the runes of the name and the operator behind it
RECURSIVE readName(_, _)
readName(tok, name) ==
    LET failed(t, pos, msg) ==
            [st |-> "err", name |-> name, op |-> "", tok |-> t, Pos |-> pos, Msg |-> msg]
        found(t, operator) ==
            [st |-> "ok", name |-> name, op |-> operator, tok |-> t, Pos |-> 0, Msg |-> ""]
        \* case '>', '<', '~': the rune r2 behind r
        twoRunes(r, n2) ==
            IF n2.r # rune["="]
            THEN failed(n2.tok, n2.tok.cpos - 1,
                        IF r = rune[">"] THEN "expected = after >"
                        ELSE IF r = rune["<"] THEN "expected = after <"
                        ELSE "expected = after ~")
            ELSE found(n2.tok, IF r = rune[">"] THEN ">="
                               ELSE IF r = rune["<"] THEN "<=" ELSE "~=")
        hex(h) ==
            IF h.st # "ok" THEN failed(h.tok, h.Pos, h.Msg)
            ELSE readName(h.tok, Append(name, h.n))
        step(n) ==
            IF n.r \in {0, RuneError}
            THEN failed(n.tok, n.tok.cpos, "unxpected end of filter")
            ELSE IF n.r = rune["="] THEN found(n.tok, "=")
            ELSE IF n.r \in {rune[">"], rune["<"], rune["~"]}
            THEN twoRunes(n.r, next(n.tok))
            ELSE IF n.r = rune["\\"] THEN hex(hexCode(n.tok))
            ELSE readName(n.tok, Append(name, n.r))
    IN  step(next(tok))

\* the loop valueLoop: the runes of the value, and whether a '*' was read;
\* the ')' that ends it is given back with tok.pos--
RECURSIVE readValue(_, _, _)
readValue(tok, value, hasStar) ==
    LET failed(t, pos, msg) ==
            [st |-> "err", value |-> value, hasStar |-> hasStar, tok |-> t,
             Pos |-> pos, Msg |-> msg]
        hex(h) ==
            IF h.st # "ok" THEN failed(h.tok, h.Pos, h.Msg)
            ELSE readValue(h.tok, Append(value, h.n), hasStar)
        step(n) ==
            IF n.r \in {0, RuneError}
            THEN failed(n.tok, n.tok.cpos, "unxpected end of filter")
            ELSE IF n.r = rune[")"]
            THEN [st |-> "ok", value |-> value, hasStar |-> hasStar,
                  tok |-> [n.tok EXCEPT !.pos = @ - 1], Pos |-> 0, Msg |-> ""]
            ELSE IF n.r = rune["\\"] THEN hex(hexCode(n.tok))
            ELSE readValue(n.tok, Append(value, n.r), hasStar \/ n.r = rune["*"])
    IN  step(next(tok))

\* string(rs) of a []rune: a rune that is no code point becomes utf8.RuneError
runesToString(rs) == [i \in DOMAIN rs |-> IF rs[i] < 0 THEN RuneError ELSE rs[i]]

\* strings.Split(s, sep) for a separator of one rune
RECURSIVE Split(_, _)
Split(s, sep) ==
    IF \A i \in DOMAIN s : s[i] # sep THEN <<s>>
    ELSE LET i == CHOOSE k \in DOMAIN s : s[k] = sep /\ \A j \in 1..(k - 1) : s[j] # sep
         IN  <<SubSeq(s, 1, i - 1)>> \o Split(SubSeq(s, i + 1, Len(s)), sep)

\* the default case of parseFilter: an item, from the first rune r of its name
parseItem(r, tok) ==
    LET \* the filter of the name, the operator and the value read
        item(nameS, operator, valueS, hasStar, parts, t) ==
            IF valueS = <<rune["*"]>>
            THEN IF operator # "="
                 THEN ErrFilterSyntaxError(t.cpos, "* value for non = op", t)
                 ELSE FilterOk([kind |-> "Present", Attribute |-> nameS], t)
            ELSE IF hasStar
            THEN IF operator # "="
                 THEN ErrFilterSyntaxError(t.cpos, "non equality substring match not allowed", t)
                 ELSE FilterOk([kind |-> "Substrings", Attribute |-> nameS,
                                Initial |-> parts[1],
                                Any |-> SubSeq(parts, 2, Len(parts) - 1),
                                Final |-> parts[Len(parts)]], t)
            ELSE FilterOk([kind |-> IF operator = "=" THEN "EqualityMatch"
                                    ELSE IF operator = ">=" THEN "GreaterOrEqual"
                                    ELSE IF operator = "<=" THEN "LessOrEqual"
                                    ELSE "ApproxMatch",
                           Attribute |-> nameS, Value |-> valueS], t)
        afterValue(nm, vl) ==
            IF vl.st # "ok" THEN ErrFilterSyntaxError(vl.Pos, vl.Msg, vl.tok)
            ELSE item(runesToString(nm.name), nm.op, runesToString(vl.value), vl.hasStar,
                      Split(runesToString(vl.value), rune["*"]), vl.tok)
        afterName(nm) ==
            IF nm.st # "ok" THEN ErrFilterSyntaxError(nm.Pos, nm.Msg, nm.tok)
            ELSE afterValue(nm, readValue(nm.tok, <<>>, FALSE))
    IN  afterName(readName(tok, <<r>>))

\* parseFilter, and the loop of its case '&', '|' over the filters of the list
RECURSIVE parseFilter(_, _)
RECURSIVE parseFilters(_, _)
parseFilters(tok, filters) ==
    LET more(f) ==
            IF f.st = "ErrFilterSyntaxError" THEN f
            ELSE IF f.st = "nil" THEN FilterOk(filters, f.tok)
            ELSE parseFilters(f.tok, Append(filters, f.f))
    IN  more(parseFilter(tok, TRUE))

parseFilter(tok, checkClose) ==
    LET \* the ')' behind the filter
        close(f, n3) ==
            IF n3.r # rune[")"]
            THEN ErrFilterSyntaxError(n3.tok.cpos - 1, "expected )", n3.tok)
            ELSE FilterOk(f, n3.tok)
        closed(filter) ==
            IF filter.st # "ok" THEN filter ELSE close(filter.f, next(filter.tok))
        list(r, fs) ==
            IF fs.st # "ok" THEN fs
            ELSE FilterOk([kind |-> IF r = rune["&"] THEN "AND" ELSE "OR",
                           Filters |-> fs.f], fs.tok)
        not(f) ==
            IF f.st # "ok" THEN f ELSE FilterOk([kind |-> "NOT", Filter |-> f.f], f.tok)
        \* the switch on the rune behind the '('
        body(n2) ==
            IF n2.r \in {0, RuneError}
            THEN ErrFilterSyntaxError(n2.tok.cpos, "unxpected end of filter", n2.tok)
            ELSE IF n2.r \in {rune["&"], rune["|"]}
            THEN closed(list(n2.r, parseFilters(n2.tok, <<>>)))
            ELSE IF n2.r = rune["!"]
            THEN closed(not(parseFilter(n2.tok, FALSE)))
            ELSE closed(parseItem(n2.r, n2.tok))
        open(n1) ==
            IF checkClose /\ n1.r = rune[")"]
            THEN FilterNil([n1.tok EXCEPT !.pos = @ - 1])
            ELSE IF n1.r # rune["("]
            THEN ErrFilterSyntaxError(n1.tok.cpos - 1, "expected (", n1.tok)
            ELSE body(next(n1.tok))
    IN  open(next(tok))

\* ParseFilter
ParseFilter(filter) ==
    IF Len(filter) = 0
    THEN ErrFilterSyntaxError(0, "empty filter", tokenizer(filter))
    ELSE parseFilter(tokenizer(filter), FALSE)

\* the filters of the round trip through the text: attribute names and
\* values with and without the characters of escapes, alone and nested
FilterNames ==
    {Runes(<<"c", "n">>), Runes(<<"a">>), Runes(<<"a", "=", "b">>), Runes(<<"(", "a">>)}

FilterValues ==
    {<<>>, Runes(<<"x">>), Runes(<<"a", "b">>), Runes(<<"a", "*", "b">>),
     Runes(<<"a", "\\", "2", "8">>)}
    \cup {<<r>> : r \in DOMAIN escapes}

AssertionKinds == {"EqualityMatch", "GreaterOrEqual", "LessOrEqual", "ApproxMatch"}

AssertionFilters ==
    {[kind |-> k, Attribute |-> a, Value |-> v] :
        k \in AssertionKinds, a \in FilterNames, v \in FilterValues}

PresentFilters == {[kind |-> "Present", Attribute |-> a] : a \in FilterNames}

\* substrings with at least one of initial, any, final, and no empty any
SubstringsFilters ==
    {s \in {[kind |-> "Substrings", Attribute |-> a, Initial |-> i, Any |-> m, Final |-> e] :
                a \in {Runes(<<"c", "n">>), Runes(<<"a", "=", "b">>)},
                i \in {<<>>, Runes(<<"a">>), Runes(<<"*">>)},
                m \in {<<>>, <<Runes(<<"b">>)>>, <<Runes(<<"b">>), Runes(<<"c">>)>>,
                       <<Runes(<<"(">>)>>},
                e \in {<<>>, Runes(<<"x">>)}} :
        s.Initial # <<>> \/ s.Any # <<>> \/ s.Final # <<>>}

NestedLeaves ==
    {[kind |-> "EqualityMatch", Attribute |-> Runes(<<"c", "n">>), Value |-> Runes(<<"x">>)],
     [kind |-> "GreaterOrEqual", Attribute |-> Runes(<<"a">>), Value |-> Runes(<<"(">>)],
     [kind |-> "Present", Attribute |-> Runes(<<"a">>)],
     [kind |-> "Substrings", Attribute |-> Runes(<<"c", "n">>), Initial |-> Runes(<<"a">>),
      Any |-> <<Runes(<<"b">>)>>, Final |-> Runes(<<"x">>)]}

NestedFilters ==
    {[kind |-> "NOT", Filter |-> f] : f \in NestedLeaves}
    \cup {[kind |-> k, Filters |-> <<f>>] : k \in {"AND", "OR"}, f \in NestedLeaves}
    \cup {[kind |-> k, Filters |-> <<f, g>>] :
              k \in {"AND", "OR"}, f \in NestedLeaves, g \in NestedLeaves}
    \cup {[kind |-> "AND", Filters |-> <<[kind |-> "OR", Filters |-> <<f>>],
                                         [kind |-> "NOT", Filter |-> g]>>] :
              f \in NestedLeaves, g \in NestedLeaves}

FilterInputs ==
    {[kind |-> "filter", f |-> f] :
        f \in AssertionFilters \cup PresentFilters \cup SubstringsFilters \cup NestedFilters}

\* ParseFilter(f.String())
ApplyParseFilter ==
    /\ fn = "none"
    /\ arg.kind = "filter"
    /\ fn' = "ParseFilter"
    /\ ret' = [text |-> String(arg.f), parse |-> ParseFilter(String(arg.f))]
    /\ UNCHANGED arg
    /\ UNCHANGED nonFnVars

(***************************************************************************)
(* Filters as BER: the Encode method of each filter type, read back by     *)
(* parseSearchFilter.  Here a string is a value of its own, as in the      *)
(* request parsers, and Encode returns its packet: its error is always nil.*)
(***************************************************************************)
\* the loop of Substrings.Encode over f.Any: the items of the any that are not ""
RECURSIVE encodeAny(_)
encodeAny(any) ==
    IF any = <<>> THEN <<>>
    ELSE (IF Head(any) # "" THEN <<NewPacket(ClassContext, TRUE, 1, StrV(Head(any)), <<>>)>>
          ELSE <<>>)
         \o encodeAny(Tail(any))

\* the tag of EqualityMatch, GreaterOrEqual, LessOrEqual and ApproxMatch
assertionTag(kind) ==
    IF kind = "EqualityMatch" THEN filterTagEqualityMatch
    ELSE IF kind = "GreaterOrEqual" THEN filterTagGreaterOrEqual
    ELSE IF kind = "LessOrEqual" THEN filterTagLessOrEqual
    ELSE filterTagApproxMatch

RECURSIVE EncodeFilter(_)
EncodeFilter(f) ==
    IF f.kind \in {"AND", "OR"}
    THEN NewPacket(ClassContext, FALSE,
                   IF f.kind = "AND" THEN filterTagAND ELSE filterTagOR, NilV,
                   [i \in DOMAIN f.Filters |-> EncodeFilter(f.Filters[i])])
    ELSE IF f.kind = "NOT"
    THEN NewPacket(ClassContext, FALSE, filterTagNOT, NilV, <<EncodeFilter(f.Filter)>>)
    ELSE IF f.kind = "Present"
    THEN NewPacket(ClassContext, TRUE, filterTagPresent, StrV(f.Attribute), <<>>)
    ELSE IF f.kind = "Substrings"
    THEN NewPacket(ClassContext, FALSE, filterTagSubstrings, NilV,
             <<NewPacket(ClassUniversal, TRUE, TagOctetString, StrV(f.Attribute), <<>>),
               NewPacket(ClassUniversal, FALSE, TagSequence, NilV,
                   (IF f.Initial # ""
                    THEN <<NewPacket(ClassContext, TRUE, 0, StrV(f.Initial), <<>>)>>
                    ELSE <<>>)
                   \o encodeAny(f.Any)
                   \o (IF f.Final # ""
                       THEN <<NewPacket(ClassContext, TRUE, 2, StrV(f.Final), <<>>)>>
                       ELSE <<>>))>>)
    ELSE NewPacket(ClassContext, FALSE, assertionTag(f.kind), NilV,
             <<NewPacket(ClassUniversal, TRUE, TagOctetString, StrV(f.Attribute), <<>>),
               NewPacket(ClassUniversal, TRUE, TagOctetString, BytesV(f.Value), <<>>)>>)

\* the filters of the round trip through BER: what ParseFilter builds and
\* what a caller builds; "(cn=pre**suf)" parses to a substrings with the any ""
EncodedLeaves ==
    {[kind |-> k, Attribute |-> a, Value |-> v] :
        k \in AssertionKinds, a \in {"cn", "a"}, v \in {"", "x", "123"}}
    \cup {[kind |-> "Present", Attribute |-> a] : a \in {"cn", "a"}}
    \cup {[kind |-> "Substrings", Attribute |-> "cn", Initial |-> i, Any |-> m, Final |-> e] :
              i \in {"", "pre"},
              m \in {<<>>, <<"mid">>, <<"mid1", "mid2">>, <<"">>, <<"mid1", "">>},
              e \in {"", "suf"}}

EncodedNestedLeaves ==
    {[kind |-> "EqualityMatch", Attribute |-> "cn", Value |-> "x"],
     [kind |-> "LessOrEqual", Attribute |-> "a", Value |-> "123"],
     [kind |-> "Present", Attribute |-> "a"],
     [kind |-> "Substrings", Attribute |-> "cn", Initial |-> "pre", Any |-> <<"mid">>,
      Final |-> "suf"]}

EncodedNested ==
    {[kind |-> "NOT", Filter |-> f] : f \in EncodedNestedLeaves}
    \cup {[kind |-> k, Filters |-> <<f>>] : k \in {"AND", "OR"}, f \in EncodedNestedLeaves}
    \cup {[kind |-> k, Filters |-> <<f, g>>] :
              k \in {"AND", "OR"}, f \in EncodedNestedLeaves, g \in EncodedNestedLeaves}
    \cup {[kind |-> "OR", Filters |-> <<[kind |-> "AND", Filters |-> <<f>>],
                                        [kind |-> "NOT", Filter |-> g]>>] :
              f \in EncodedNestedLeaves, g \in EncodedNestedLeaves}

EncodedInputs ==
    {[kind |-> "encoded", filter |-> f] : f \in EncodedLeaves \cup EncodedNested}

\* parseSearchFilter(f.Encode())
ApplyEncodeFilter ==
    /\ fn = "none"
    /\ arg.kind = "encoded"
    /\ fn' = "parseSearchFilter"
    /\ ret' = [pkt |-> EncodeFilter(arg.filter),
               parse |-> parseSearchFilter(EncodeFilter(arg.filter))]
    /\ UNCHANGED arg
    /\ UNCHANGED nonFnVars

\* the texts given to ParseFilter: items whose value is made of 'a' and '*',
\* lists of no, one and two filters, a negation, and texts that end early
ValueTexts ==
    {<<>>} \cup {<<x>> : x \in {rune["a"], rune["*"]}}
    \cup {<<x, y>> : x \in {rune["a"], rune["*"]}, y \in {rune["a"], rune["*"]}}
    \cup {<<x, y, z>> : x \in {rune["a"], rune["*"]}, y \in {rune["a"], rune["*"]},
                        z \in {rune["a"], rune["*"]}}

ItemTexts ==
    {Runes(<<"(", "c", "n">>) \o o \o v \o Runes(<<")">>) :
        o \in {Runes(<<"=">>), Runes(<<">", "=">>)}, v \in ValueTexts}

ListTexts ==
    {Runes(<<"(">>) \o o \o fs \o Runes(<<")">>) :
        o \in {Runes(<<"&">>), Runes(<<"|">>), Runes(<<"!">>)},
        fs \in {<<>>, Runes(<<"(", "a", "=", "x", ")">>),
                Runes(<<"(", "a", "=", "x", ")", "(", "b", "=", "*", ")">>),
                Runes(<<"(", "&", ")">>), Runes(<<"(", "|", "(", "a", "=", "*", "*", ")", ")">>)}}

TextInputs ==
    {[kind |-> "text", text |-> s] :
        s \in ItemTexts \cup ListTexts
              \cup {<<>>, Runes(<<"(">>), Runes(<<"(", "a">>), Runes(<<"(", "a", "=", "x">>),
                    Runes(<<"a", "=", "x">>)}
              \* hex codes in a value and in a name: no hex digits, a code
              \* above 7f, a code that is an asterisk, a backslash for a digit
              \cup {Runes(<<"(", "c", "n", "=">>) \o h \o Runes(<<")">>) :
                       h \in {Runes(<<"\\", "z", "z">>), Runes(<<"\\", "8", "0">>),
                              Runes(<<"\\", "2", "a">>), Runes(<<"\\", "\\", "\"">>),
                              Runes(<<"\\", "4">>)}}
              \cup {Runes(<<"(", "c">>) \o h \o Runes(<<"=", "a", ")">>) :
                       h \in {Runes(<<"\\", "z", "z">>), Runes(<<"\\", "f", "f">>),
                              Runes(<<"\\", "6", "e">>)}}}

\* ParseFilter(text)
ApplyParseText ==
    /\ fn = "none"
    /\ arg.kind = "text"
    /\ fn' = "ParseFilterText"
    /\ ret' = ParseFilter(arg.text)
    /\ UNCHANGED arg
    /\ UNCHANGED nonFnVars

(***************************************************************************)
(* The parsers of the responses, and every parser applied to packet trees  *)
(* of the right and of the wrong structure.                                *)
(***************************************************************************)
\* parseBaseResponse, on the zero BaseResponse its callers pass: MessageType
\* is not set from the packet
parseBaseResponse(pkt) ==
    IF Len(pkt.items) < 3
    THEN ProtocolError(Text("base response should have at least 3 values"))
    ELSE IF ~PacketInt(pkt.items[1]).ok
    THEN ProtocolError(Text("invalid code in response"))
    ELSE IF ~PacketStr(pkt.items[2]).ok
    THEN ProtocolError(Text("invalid matchedDN in response"))
    ELSE IF ~PacketStr(pkt.items[3]).ok
    THEN ProtocolError(Text("invalid message in response"))
    ELSE ParseOk([MessageType |-> 0,
                  Code |-> PacketInt(pkt.items[1]).v,
                  MatchedDN |-> PacketStr(pkt.items[2]).v,
                  Message |-> PacketStr(pkt.items[3]).v])

\* the loop of parseExtendedResponse over pkt.Items[3:], from item i on
RECURSIVE extendedResponseItems(_, _, _)
extendedResponseItems(items, i, r) ==
    IF i > Len(items) THEN ParseOk(r)
    ELSE IF items[i].tag = 10
    THEN IF ~PacketStr(items[i]).ok
         THEN ProtocolError(Text("invalid extended response oid"))
         ELSE extendedResponseItems(items, i + 1, [r EXCEPT !.Name = PacketStr(items[i]).v])
    ELSE IF items[i].tag = 11
    THEN IF ~PacketBytes(items[i]).ok
         THEN ProtocolError(Text("invalid extended response value"))
         ELSE extendedResponseItems(items, i + 1, [r EXCEPT !.Value = PacketBytes(items[i]).v])
    ELSE ProtocolError(Text("unsupported extended response tag"))

\* parseExtendedResponse
parseExtendedResponse(pkt) ==
    LET items(base) ==
            IF base.st # "ok" THEN base
            ELSE extendedResponseItems(pkt.items, 4,
                     [MessageType |-> base.v.MessageType, Code |-> base.v.Code,
                      MatchedDN |-> base.v.MatchedDN, Message |-> base.v.Message,
                      Name |-> "", Value |-> NilBytes])
    IN  items(parseBaseResponse(pkt))

\* the parser named by parser, applied to pkt
parse(parser, pkt) ==
    IF parser = "parseBindRequest" THEN parseBindRequest(pkt)
    ELSE IF parser = "parseSearchRequest" THEN parseSearchRequest(pkt)
    ELSE IF parser = "parseSearchFilter" THEN parseSearchFilter(pkt)
    ELSE IF parser = "parseModifyRequest" THEN parseModifyRequest(pkt)
    ELSE IF parser = "parseModifyDNRequest" THEN parseModifyDNRequest(pkt)
    ELSE IF parser = "parseAddRequest" THEN parseAddRequest(pkt)
    ELSE IF parser = "parseDeleteRequest" THEN parseDeleteRequest(pkt)
    ELSE IF parser = "parseExtendedRequest" THEN parseExtendedRequest(pkt)
    ELSE IF parser = "parseExtendedResponse" THEN parseExtendedResponse(pkt)
    ELSE parseBaseResponse(pkt)

\* the parser processRequest gives a request of this tag to
requestParser(tag) ==
    IF tag = ApplicationBindRequest THEN "parseBindRequest"
    ELSE IF tag = ApplicationSearchRequest THEN "parseSearchRequest"
    ELSE IF tag = ApplicationAddRequest THEN "parseAddRequest"
    ELSE IF tag = ApplicationDelRequest THEN "parseDeleteRequest"
    ELSE IF tag = ApplicationModifyRequest THEN "parseModifyRequest"
    ELSE IF tag = ApplicationModifyDNRequest THEN "parseModifyDNRequest"
    ELSE "parseExtendedRequest"

\* filters of the right structure, and with children missing or mistyped
FilterPackets ==
    { PresentFilter,
      WireConstructed(ClassContext, filterTagPresent, <<>>),
      WireConstructed(ClassContext, filterTagNOT, <<PresentFilter>>),
      WireConstructed(ClassContext, filterTagNOT, <<>>),
      WirePrimitive(ClassContext, filterTagNOT, "x"),
      WireConstructed(ClassContext, filterTagAND, <<>>),
      WireConstructed(ClassContext, filterTagOR,
          <<PresentFilter, WireConstructed(ClassContext, filterTagNOT, <<>>)>>),
      WireConstructed(ClassContext, filterTagSubstrings, <<WireOctetString("cn")>>),
      WireConstructed(ClassContext, filterTagSubstrings,
          <<WireOctetString("cn"), WireSequence(<<WirePrimitive(ClassContext, 2, "x"),
                                                  WirePrimitive(ClassContext, 0, "y")>>)>>),
      WireConstructed(ClassContext, filterTagSubstrings,
          <<WireOctetString("cn"), WireSequence(<<WirePrimitive(ClassContext, 1, "x")>>)>>) }
    \cup { WireConstructed(ClassContext, t, items) :
             t \in {filterTagEqualityMatch, filterTagGreaterOrEqual, filterTagLessOrEqual,
                    filterTagApproxMatch},
             items \in {<<>>, <<WireOctetString("cn")>>,
                        <<WireOctetString("cn"), WireOctetString("x")>>,
                        <<WireInteger(1), WireOctetString("x")>>,
                        <<WireOctetString("cn"), WireInteger(1)>>} }

\* responses of the right structure, and with values missing or mistyped
ResponsePackets ==
    { WireConstructed(ClassApplication, t, items) :
        t \in {ApplicationBindResponse, ApplicationExtendedResponse},
        items \in {<<>>,
                   <<WireEnumerated(0), WireOctetString("")>>,
                   <<WireEnumerated(0), WireOctetString(""), WireOctetString("")>>,
                   <<WireOctetString("0"), WireOctetString(""), WireOctetString("")>>,
                   <<WireEnumerated(0), WireInteger(1), WireOctetString("")>>,
                   <<WireEnumerated(0), WireOctetString(""), WireBoolean(TRUE)>>,
                   <<WireEnumerated(0), WireOctetString(""), WireOctetString(""),
                     WirePrimitive(ClassContext, 10, OIDWhoAmI),
                     WirePrimitive(ClassContext, 11, "dn:cn=joe")>>,
                   <<WireEnumerated(0), WireOctetString(""), WireOctetString(""),
                     WirePrimitive(ClassContext, 12, "x")>>,
                   <<WireEnumerated(0), WireOctetString(""), WireOctetString(""),
                     WireConstructed(ClassContext, 11, <<>>)>>} }

\* an AddRequest that names the attribute cn twice
RepeatedAttributeRequest ==
    WireConstructed(ClassApplication, ApplicationAddRequest,
        <<WireOctetString("cn=joe"),
          WireSequence(<<AttributeItem("cn", <<WireOctetString("a")>>),
                         AttributeItem("cn", <<WireOctetString("b")>>)>>)>>)

ParserInputs ==
    {[kind |-> "parser", parser |-> requestParser(p.tag), tree |-> p] :
        p \in {q \in GoodRequests \cup BadRequests \cup {RepeatedAttributeRequest} :
                  q.tag # ApplicationUnbindRequest}}
    \cup {[kind |-> "parser", parser |-> "parseSearchFilter", tree |-> p] : p \in FilterPackets}
    \cup {[kind |-> "parser",
           parser |-> IF p.tag = ApplicationExtendedResponse THEN "parseExtendedResponse"
                      ELSE "parseBaseResponse",
           tree |-> p] : p \in ResponsePackets}

\* one parser applied to one packet tree
ApplyParser ==
    /\ fn = "none"
    /\ arg.kind = "parser"
    /\ fn' = "parse"
    /\ ret' = parse(arg.parser, arg.tree)
    /\ UNCHANGED arg
    /\ UNCHANGED nonFnVars

(***************************************************************************)
(* The typed messages: WritePackets of each, the packet as the peer reads  *)
(* it back from the bytes, and the parser of the operation.                *)
(***************************************************************************)
\* NewRequestPacket (client.go) and NewResponsePacket (response.go), with
\* the operation packet added
NewRequestPacket(id, operation) ==
    NewPacket(ClassUniversal, FALSE, TagSequence, NilV,
        <<NewPacket(ClassUniversal, TRUE, TagInteger, IntV(id), <<>>), operation>>)

NewResponsePacket(id, operation) ==
    NewPacket(ClassUniversal, FALSE, TagSequence, NilV,
        <<NewPacket(ClassUniversal, TRUE, TagInteger, IntV(id), <<>>), operation>>)

\* BaseResponse.NewPacket, with the tag the WritePackets of the response
\* type then sets and the items it adds
BaseResponsePacket(r, tag, items) ==
    NewPacket(ClassApplication, FALSE, tag, NilV,
        <<NewPacket(ClassUniversal, TRUE, TagEnumerated, IntV(r.Code), <<>>),
          NewPacket(ClassUniversal, TRUE, TagOctetString, StrV(r.MatchedDN), <<>>),
          NewPacket(ClassUniversal, TRUE, TagOctetString, StrV(r.Message), <<>>)>> \o items)

RECURSIVE rangeOf(_)
\* `for a := range r.Attributes`: the orders in which one iteration can give
\* the keys; Go does not fix the order of a map
rangeOf(keys) ==
    IF keys = {} THEN {<<>>}
    ELSE UNION {{<<a>> \o rest : rest \in rangeOf(keys \ {a})} : a \in keys}

\* the bytes of the []byte b as Packet.write emits them: a nil slice has none
contents(b) == IF b = NilBytes THEN "" ELSE b

\* the packets of the loop of ModifyRequest.WritePackets over r.Mods
modPackets(mods) ==
    [k \in DOMAIN mods |->
        NewPacket(ClassUniversal, FALSE, TagSequence, NilV,
            <<NewPacket(ClassUniversal, TRUE, TagEnumerated, IntV(mods[k].Type), <<>>),
              NewPacket(ClassUniversal, FALSE, TagSequence, NilV,
                  <<NewPacket(ClassUniversal, TRUE, TagOctetString, StrV(mods[k].Name), <<>>),
                    NewPacket(ClassUniversal, FALSE, TagSet, NilV,
                        [j \in DOMAIN mods[k].Values |->
                            NewPacket(ClassUniversal, TRUE, TagOctetString,
                                      BytesV(contents(mods[k].Values[j])), <<>>)])>>)>>)]

\* a SearchRequest whose Filter is nil
NilFilter == [kind |-> "nil"]

\* the message r as WritePackets leaves it: SearchRequest.WritePackets sets a
\* nil Filter to the presence of objectClass
afterWrite(type, r) ==
    IF type = "SearchRequest" /\ r.Filter = NilFilter
    THEN [r EXCEPT !.Filter = [kind |-> "Present", Attribute |-> "objectClass"]]
    ELSE r

\* WritePackets of the message r of type type: the packet it writes, when the
\* range over the attributes of a SearchRequest gives them in the order order.
\* The item of the value of an extended request or response is added unless
\* the value is nil.
MessagePacket(type, r, id, order) ==
    IF type = "BindRequest"
    THEN NewRequestPacket(id,
             NewPacket(ClassApplication, FALSE, ApplicationBindRequest, NilV,
                 <<NewPacket(ClassUniversal, TRUE, TagInteger, IntV(protocolVersion), <<>>),
                   NewPacket(ClassUniversal, TRUE, TagOctetString, StrV(r.DN), <<>>),
                   NewPacket(ClassContext, TRUE, 0, BytesV(contents(r.Password)), <<>>)>>))
    ELSE IF type = "SearchRequest"
    THEN NewRequestPacket(id,
             NewPacket(ClassApplication, FALSE, ApplicationSearchRequest, NilV,
                 <<NewPacket(ClassUniversal, TRUE, TagOctetString, StrV(r.BaseDN), <<>>),
                   NewPacket(ClassUniversal, TRUE, TagEnumerated, IntV(r.Scope), <<>>),
                   NewPacket(ClassUniversal, TRUE, TagEnumerated, IntV(r.DerefAliases), <<>>),
                   NewPacket(ClassUniversal, TRUE, TagInteger, IntV(r.SizeLimit), <<>>),
                   NewPacket(ClassUniversal, TRUE, TagInteger, IntV(r.TimeLimit), <<>>),
                   NewPacket(ClassUniversal, TRUE, TagBoolean, BoolV(r.TypesOnly), <<>>),
                   EncodeFilter(afterWrite(type, r).Filter),
                   NewPacket(ClassUniversal, FALSE, TagSequence, NilV,
                       [k \in DOMAIN order |->
                           NewPacket(ClassUniversal, TRUE, TagOctetString,
                                     StrV(order[k]), <<>>)])>>))
    ELSE IF type = "ModifyRequest"
    THEN NewRequestPacket(id,
             NewPacket(ClassApplication, FALSE, ApplicationModifyRequest, NilV,
                 <<NewPacket(ClassUniversal, TRUE, TagOctetString, StrV(r.DN), <<>>),
                   NewPacket(ClassUniversal, FALSE, TagSequence, NilV, modPackets(r.Mods))>>))
    ELSE IF type = "DeleteRequest"
    THEN NewRequestPacket(id,
             NewPacket(ClassApplication, TRUE, ApplicationDelRequest, StrV(r.DN), <<>>))
    ELSE IF type = "ExtendedRequest"
    THEN NewRequestPacket(id,
             NewPacket(ClassApplication, FALSE, ApplicationExtendedRequest, NilV,
                 (IF r.Name # ""
                  THEN <<NewPacket(ClassContext, TRUE, 0, StrV(r.Name), <<>>)>> ELSE <<>>)
                 \o (IF r.Value # NilBytes
                     THEN <<NewPacket(ClassContext, TRUE, 1, BytesV(r.Value), <<>>)>>
                     ELSE <<>>)))
    ELSE IF type = "BindResponse"
    THEN NewResponsePacket(id, BaseResponsePacket(r, ApplicationBindResponse, <<>>))
    ELSE IF type = "DeleteResponse"
    THEN NewResponsePacket(id, BaseResponsePacket(r, ApplicationDelResponse, <<>>))
    ELSE NewResponsePacket(id,
             BaseResponsePacket(r, ApplicationExtendedResponse,
                 (IF r.Name # ""
                  THEN <<NewPacket(ClassContext, TRUE, 10, StrV(r.Name), <<>>)>> ELSE <<>>)
                 \o (IF r.Value # NilBytes
                     THEN <<NewPacket(ClassContext, TRUE, 11, BytesV(r.Value), <<>>)>>
                     ELSE <<>>)))

\* the result of writing a packet and reading it back
WriteError(m) == [st |-> "WriteError", msg |-> Text(m), v |-> <<>>]

\* []byte(s) of a string of printable ASCII characters
bytesOf(s) == [k \in 1..Len(s) |-> rune[SubSeq(s, k, k)]]

RECURSIVE stringOf(_)
\* string(bs) of bytes that are printable ASCII characters
stringOf(bs) == IF bs = <<>> THEN "" ELSE char[Head(bs)] \o stringOf(Tail(bs))

RECURSIVE packetBytes(_)
\* the packet p with each string and []byte as the sequence of its bytes
packetBytes(p) ==
    NewPacket(p.class, p.prim, p.tag,
              IF p.val.t \in {"string", "bytes"} THEN [p.val EXCEPT !.s = bytesOf(@)]
              ELSE p.val,
              [k \in DOMAIN p.items |-> packetBytes(p.items[k])])

RECURSIVE packetStrings(_)
\* the packet p with each sequence of bytes as a string again
packetStrings(p) ==
    NewPacket(p.class, p.prim, p.tag,
              IF p.val.t \in {"string", "bytes"} THEN [p.val EXCEPT !.s = stringOf(@)]
              ELSE p.val,
              [k \in DOMAIN p.items |-> packetStrings(p.items[k])])

\* p.Write(w), and ReadPacket by the peer of the bytes it put on w
readBack(p) ==
    LET read(r) ==
            IF r.st = "ok" THEN ParseOk(packetStrings(r.v))
            ELSE [st |-> r.st, msg |-> Text(r.msg), v |-> <<>>]
        written(w) ==
            IF w.err # "nil" THEN WriteError(w.err) ELSE read(ReadPacket(w.bytes))
    IN  written(write(packetBytes(p)))

\* what serve and the receive loop make of a packet read: the message ID and
\* the operation packet
readMessage(pkt) ==
    IF pkt.class # ClassUniversal \/ pkt.prim \/ pkt.tag # TagSequence \/ Len(pkt.items) < 2
    THEN [st |-> "ProtocolError", id |-> 0, operation |-> <<>>]
    ELSE IF ~PacketInt(pkt.items[1]).ok
    THEN [st |-> "ProtocolError", id |-> 0, operation |-> <<>>]
    ELSE [st |-> "ok", id |-> PacketInt(pkt.items[1]).v, operation |-> pkt.items[2]]

\* the parser of the messages of type type
parserOf(type) ==
    IF type = "BindRequest" THEN "parseBindRequest"
    ELSE IF type = "SearchRequest" THEN "parseSearchRequest"
    ELSE IF type = "ModifyRequest" THEN "parseModifyRequest"
    ELSE IF type = "DeleteRequest" THEN "parseDeleteRequest"
    ELSE IF type = "ExtendedRequest" THEN "parseExtendedRequest"
    ELSE IF type = "ExtendedResponse" THEN "parseExtendedResponse"
    ELSE "parseBaseResponse"

\* WritePackets(w, msgID) of a message, then the peer's read and parse: the
\* value parsed, the ID read, and the message as WritePackets left it
WriteParse(type, r, id, order) ==
    LET result(st, msg, n, v) ==
            [st |-> st, msg |-> msg, id |-> n, v |-> v, sent |-> afterWrite(type, r)]
        parsed(m, p) == result(p.st, p.msg, m.id, p.v)
        message(m) ==
            IF m.st # "ok" THEN result(m.st, Text(""), 0, <<>>)
            ELSE parsed(m, parse(parserOf(type), m.operation))
        received(b) ==
            IF b.st # "ok" THEN result(b.st, b.msg, 0, <<>>)
            ELSE message(readMessage(b.v))
    IN  received(readBack(MessagePacket(type, r, id, order)))

MessageIDs == {1, 300}
MessageDNs == {"", "cn=joe,dc=example"}
MessageCodes == {ResultSuccess, ResultProtocolError, ResultOther}
MessageFilters ==
    {NilFilter,
     [kind |-> "Present", Attribute |-> "objectClass"],
     [kind |-> "EqualityMatch", Attribute |-> "cn", Value |-> "joe"],
     [kind |-> "AND", Filters |->
         <<[kind |-> "Present", Attribute |-> "cn"],
           [kind |-> "Substrings", Attribute |-> "cn", Initial |-> "pre",
            Any |-> <<"mid">>, Final |-> "suf"]>>]}
MessageMods ==
    {<<>>,
     <<[Type |-> 0, Name |-> "cn", Values |-> <<"a">>]>>,
     <<[Type |-> 1, Name |-> "mail", Values |-> <<>>],
       [Type |-> 2, Name |-> "cn", Values |-> <<"a", "b">>]>>}

\* the tag WritePackets sets on the packet of a response
responseTag(type) ==
    IF type = "BindResponse" THEN ApplicationBindResponse
    ELSE IF type = "DeleteResponse" THEN ApplicationDelResponse
    ELSE ApplicationExtendedResponse

\* the values of each message type: byte slices that are nil, empty and not
\* empty, a search request without a filter and with a negative size limit,
\* responses whose MessageType is unset and set to their tag
TypedMessages ==
    {[type |-> "BindRequest", v |-> [DN |-> dn, Password |-> pw]] :
        dn \in MessageDNs, pw \in {NilBytes, "", "secret"}}
    \cup {[type |-> "SearchRequest",
           v |-> [BaseDN |-> "dc=example", Scope |-> sc, DerefAliases |-> 0,
                  SizeLimit |-> sl, TimeLimit |-> tl, TypesOnly |-> ty,
                  Filter |-> f, Attributes |-> at]] :
              sc \in {ScopeBaseObject, ScopeWholeSubtree}, sl \in {0, 128, 1000, -1},
              tl \in {0, 30}, ty \in BOOLEAN, f \in MessageFilters,
              at \in {{}, {"cn", "mail"}}}
    \cup {[type |-> "ModifyRequest", v |-> [DN |-> dn, Mods |-> mods]] :
              dn \in MessageDNs, mods \in MessageMods}
    \cup {[type |-> "DeleteRequest", v |-> [DN |-> dn]] : dn \in MessageDNs}
    \cup {[type |-> "ExtendedRequest", v |-> [Name |-> n, Value |-> val]] :
              n \in {"", OIDWhoAmI}, val \in {NilBytes, "", "value"}}
    \cup UNION {{[type |-> t,
                  v |-> [MessageType |-> mt, Code |-> c, MatchedDN |-> dn, Message |-> m]] :
                    mt \in {0, responseTag(t)}, c \in MessageCodes,
                    dn \in MessageDNs, m \in {"", "failed"}} :
                t \in {"BindResponse", "DeleteResponse"}}
    \cup {[type |-> "ExtendedResponse",
           v |-> [MessageType |-> mt, Code |-> c, MatchedDN |-> "", Message |-> m,
                  Name |-> n, Value |-> val]] :
              mt \in {0, ApplicationExtendedResponse}, c \in MessageCodes,
              m \in {"", "failed"}, n \in {"", OIDWhoAmI},
              val \in {NilBytes, "", "value"}}

MessageInputs ==
    {[kind |-> "message", message |-> m, msgID |-> id] : m \in TypedMessages, id \in MessageIDs}

\* m.WritePackets(w, msgID), read and parsed by the peer
ApplyWriteParse ==
    /\ fn = "none"
    /\ arg.kind = "message"
    /\ fn' = "WriteParse"
    /\ \E order \in (IF arg.message.type = "SearchRequest"
                     THEN rangeOf(arg.message.v.Attributes) ELSE {<<>>}) :
          ret' = WriteParse(arg.message.type, arg.message.v, arg.msgID, order)
    /\ UNCHANGED arg
    /\ UNCHANGED nonFnVars

(***************************************************************************)
(* The specification of the functions: one input, one application.         *)
(***************************************************************************)
FnInputs == RootDSEInputs \cup PacketInputs \cup ByteInputs \cup FilterInputs
            \cup EncodedInputs \cup TextInputs \cup ParserInputs
            \cup MessageInputs

FnInit ==
    /\ InitClient /\ ~isTLS
    /\ InitServer /\ ~tlsConfig /\ ~srvTLS
    /\ InitListener
    /\ fn = "none" /\ arg \in FnInputs /\ ret = "none"

FnNext ==
    \/ ApplyRootDSE
    \/ ApplyEncodeParse
    \/ ApplyParsePacket
    \/ ApplyParseFilter
    \/ ApplyEncodeFilter
    \/ ApplyParseText
    \/ ApplyParser
    \/ ApplyWriteParse

FnSpec == FnInit /\ [][FnNext]_vars

(***************************************************************************)
(* Properties of the functions.                                            *)
(***************************************************************************)
\* C14: in a root DSE search that requests a non-empty attribute set, a
\* configured attribute is in the returned entry, with its configured values,
\* if and only if the request names it in any letter case or requests "+".
C14_RootDSECaseInsensitive ==
    (fn = "rootDSE" /\ arg.attributes # {}) =>
        LET dse == NewServerRootDSE(arg.tlsCfg) IN
        /\ ret.DN = ""
        /\ DOMAIN ret.Attributes \subseteq DOMAIN dse
        /\ \A name \in DOMAIN dse :
              /\ name \in DOMAIN ret.Attributes <=>
                    \/ <<"+">> \in arg.attributes
                    \/ \E a \in arg.attributes : ToLower(a) = ToLower(name)
              /\ name \in DOMAIN ret.Attributes => ret.Attributes[name] = dse[name]


(***************************************************************************)
(* Properties of the server connection: search results.                    *)
(***************************************************************************)
\* the last packet read was a search the Backend answered, and the response
\* could be written
SearchServed ==
    /\ last.read = "request" /\ last.tag = ApplicationSearchRequest
    /\ last.backend = "Search" /\ last.be = "nil"
    /\ last.ioFail \notin {"deadline", "write"}

\* C15: for a search whose backend response holds n entries the server writes
\* n SearchResultEntry messages, one per entry in the backend's order, then
\* one SearchResultDone, all with the request's message ID; these n + 1 are
\* the last messages on the connection and the only ones of that request.
C15_EntriesThenDone ==
    SearchServed =>
        LET n == Len(last.results) IN
        /\ Len(last.out) = n + 1
        /\ \A k \in 1..n :
              /\ last.out[k].tag = ApplicationSearchResultEntry
              /\ last.out[k].dn = last.results[k]
        /\ last.out[n + 1].tag = ApplicationSearchResultDone
        /\ \A k \in 1..(n + 1) : last.out[k].id = last.id
        /\ Len(wire) >= n + 1
        /\ \A k \in 1..Len(wire) : wire[k].seq = nRead <=> k > Len(wire) - (n + 1)

\* a search with two results has been answered after an earlier request
C15_Witness ==
    /\ SearchServed /\ nRead = 2 /\ wire[1].seq = 1
    /\ last.results = <<"cn=zoe", "cn=amy">>
    /\ Len(last.out) = 3


(***************************************************************************)
(* Properties of Serve and Shutdown.                                       *)
(***************************************************************************)
\* C16: once Shutdown has closed the listener of a running Serve call, the
\* call does not go on looping on Accept: when its Accept fails on the closed
\* listener the call has returned, and when Shutdown is done (the connections
\* in flight have drained) no call that was running is still in the loop
\* after a failed Accept.
C16_ServeReturnsAfterShutdown ==
    \A s \in Serves : closedAccepts[s] > 0 => servePc[s] = "returned"


RECURSIVE PacketEqual(_, _)
\* structural equality of packets: class, form, tag, the value with its type,
\* and the items
PacketEqual(p, q) ==
    /\ p.class = q.class
    /\ p.prim = q.prim
    /\ p.tag = q.tag
    /\ p.val.t = q.val.t
    /\ CASE p.val.t = "int" -> p.val.i = q.val.i
         [] p.val.t = "bool" -> p.val.b = q.val.b
         [] p.val.t \in {"bytes", "string"} -> p.val.s = q.val.s
         [] OTHER -> TRUE
    /\ Len(p.items) = Len(q.items)
    /\ \A k \in 1..Len(p.items) : PacketEqual(p.items[k], q.items[k])

\* C17: for every packet P that Encode accepts, ParsePacket and ReadPacket of
\* the encoded bytes succeed, consume them all, and return a packet
\* structurally equal to P.
C17_ParseEncodeRoundTrip ==
    (fn = "EncodeParse" /\ ret.enc.err = "nil") =>
        /\ ret.parse.st = "ok"
        /\ ret.parse.n = Len(ret.enc.bytes)
        /\ PacketEqual(ret.parse.v, arg.pkt)
        /\ ret.read.st = "ok"
        /\ PacketEqual(ret.read.v, arg.pkt)

\* the unsigned number the length bytes declare is above maxPacketSize
DeclaresTooLarge(bs) ==
    LET d == int64Bytes(bs) IN
    \/ \E k \in 1..4 : d[k] # 0
    \/ d[5] > 2
    \/ ((d[5] * 256 + d[6]) * 256 + d[7]) * 256 + d[8] > maxPacketSize

\* C18: for a length in the long form with 1 to 8 length bytes, ParsePacket
\* and ReadPacket return the error "packet larger than max allowed size"
\* whenever the declared length is above maxPacketSize, whatever the bytes
\* are; no length is taken as negative or wrapped, and nothing is sliced.
C18_OversizeLengthRejected ==
    (/\ fn = "ParsePacket" /\ Len(arg.bytes) >= 2
     /\ arg.bytes[2] - 128 \in 1..8 /\ Len(arg.bytes) >= 2 + (arg.bytes[2] - 128)) =>
        LET bs == SubSeq(arg.bytes, 3, 2 + (arg.bytes[2] - 128)) IN
        /\ ret.parse.st # "panic"
        /\ ret.read.st # "panic"
        /\ DeclaresTooLarge(bs) =>
              /\ ret.parse.st = "InvalidBEREncodingError"
              /\ ret.parse.msg = "ldap: packet larger than max allowed size"
              /\ ret.read.st = "InvalidBEREncodingError"
              /\ ret.read.msg = "ldap: packet larger than max allowed size"

\* C19: for every filter built from AND, OR, NOT, EqualityMatch, Substrings,
\* GreaterOrEqual, LessOrEqual, Present and ApproxMatch, whatever characters
\* its attribute names and values hold, ParseFilter of its String succeeds
\* and returns a filter equal to it.
C19_ParseStringRoundTrip ==
    fn = "ParseFilter" => ret.parse.st = "ok" /\ ret.parse.f = arg.f

\* C20: for every filter the parser or a caller builds from AND, OR, NOT,
\* EqualityMatch, Substrings, GreaterOrEqual, LessOrEqual, Present and
\* ApproxMatch, parseSearchFilter of its Encode succeeds and returns a filter
\* equal to it, with the same initial, any list and final for a Substrings.
C20_EncodeParseRoundTrip ==
    fn = "parseSearchFilter" => ret.parse.st = "ok" /\ ret.parse.v = arg.filter

\* the invariants of a filter tree: a list has a child, a substrings has a
\* component that is not empty
RECURSIVE WellFormedFilter(_)
WellFormedFilter(f) ==
    IF f.kind \in {"AND", "OR"}
    THEN Len(f.Filters) >= 1 /\ \A i \in DOMAIN f.Filters : WellFormedFilter(f.Filters[i])
    ELSE IF f.kind = "NOT" THEN WellFormedFilter(f.Filter)
    ELSE IF f.kind = "Substrings"
    THEN f.Initial # <<>> \/ f.Final # <<>> \/ \E i \in DOMAIN f.Any : f.Any[i] # <<>>
    ELSE TRUE

\* C21: every filter ParseFilter returns without error has a child in each
\* AND and OR and a non-empty initial, any or final in each Substrings;
\* "(&)", "(|)" and "(cn=**)" are syntax errors.
C21_ParsedFiltersWellFormed ==
    (fn = "ParseFilterText" /\ ret.st = "ok") => WellFormedFilter(ret.f)

\* C22: whatever the structure of the packet tree, too few children, a
\* primitive for a constructed node or a value of the wrong type, a parser
\* returns its value or a ProtocolError and fails in no other way: it reads
\* no child that is not there.
C22_ParsersReturnProtocolError ==
    fn = "parse" => ret.st \in {"ok", "ProtocolError"}


\* the value of a message in the terms of the protocol: the bytes of a byte
\* slice, nil or not, and for a response its result (code, matched DN,
\* message) without the MessageType of the Go struct
Value(type, v) ==
    IF type = "BindRequest" THEN [DN |-> v.DN, Password |-> contents(v.Password)]
    ELSE IF type = "ExtendedRequest" THEN [Name |-> v.Name, Value |-> contents(v.Value)]
    ELSE IF type \in {"BindResponse", "DeleteResponse"}
    THEN [Code |-> v.Code, MatchedDN |-> v.MatchedDN, Message |-> v.Message]
    ELSE IF type = "ExtendedResponse"
    THEN [Code |-> v.Code, MatchedDN |-> v.MatchedDN, Message |-> v.Message,
          Name |-> v.Name, Value |-> contents(v.Value)]
    ELSE v

\* a search request has a filter, and its limits are not negative
WellFormed(type, v) ==
    type = "SearchRequest" => v.Filter # NilFilter /\ v.SizeLimit >= 0 /\ v.TimeLimit >= 0

\* the round trip over the messages with a filter and limits that are not
\* negative, with the values compared in the terms of the protocol
WriteParseRoundTripInDataModel ==
    (fn = "WriteParse" /\ WellFormed(arg.message.type, arg.message.v)) =>
        /\ ret.st = "ok"
        /\ Value(arg.message.type, ret.v) = Value(arg.message.type, arg.message.v)
        /\ ret.id = arg.msgID

\* C23: for every typed message that has an encoder and a parser, parsing the
\* operation packet that WritePackets emitted succeeds and yields a value
\* equal to the message, and the message ID read back is the ID passed to
\* WritePackets.
C23_WriteParseRoundTrip ==
    fn = "WriteParse" =>
        /\ ret.st = "ok"
        /\ ret.v = arg.message.v
        /\ ret.id = arg.msgID


(***************************************************************************)
(* Properties of the client's loops.                                       *)
(***************************************************************************)
\* C24: when the receive loop looks up the message ID of a packet it has
\* read, the send loop has inserted the pending-map entry of the request with
\* that ID: it is not still between its write and its insertion, so the
\* response to a written request is not dropped as an unknown ID.
C24_InsertedBeforeLookup ==
    recvPc = "lookup" => ~(sendPc = "insert" /\ sendCur = recvCur.id)


\* C25: the receive loop does not wait on a caller: whenever it is about to
\* deliver a packet to the channel of a pending call, the channel has room,
\* also when the Search the packet belongs to has not consumed the packets
\* delivered before.
C25_DeliverNeverBlocks ==
    recvPc = "deliver" => Len(chans[recvCur.id]) < ChanCap


\* the StartTLS call of c has its response: the receive loop has put it on
\* the call's channel, or the call has taken it from the channel (what it
\* took was not the error of the send loop's write) and has not yet begun to
\* release the loops
ResponseDelivered(c) ==
    /\ op[c] = "StartTLS"
    /\ \/ pc[c] = "wait" /\ chans[cid[c]] # <<>> /\ Head(chans[cid[c]]).tag = "Resp"
       \/ pc[c] \in {"finish", "tlsHandshake", "tlsRelS"} /\ res[c] # "writeErr"

\* C26: from the delivery of the StartTLS response to the caller until the
\* caller releases the loops, the send loop is past its write, at its
\* sentinel test or halted on the sentinel, and the receive loop is past its
\* delivery, at its sentinel test or halted: neither is writing to or reading
\* from the connection the handshake runs on.
C26_LoopsQuiescedForHandshake ==
    \A c \in Callers :
        ResponseDelivered(c) =>
            /\ sendPc \in {"select", "halted"}
            /\ recvPc \in {"select", "halted"}

C26_Witness ==
    \E c \in Callers :
        /\ pc[c] = "tlsHandshake"
        /\ sendPc = "halted"
        /\ recvPc = "halted"
        /\ ~cnClosed


\* C27: a StartTLS call whose request has its outcome, the error of the send
\* loop's write or flush or the response the receive loop delivered,
\* eventually returns: it finishes the message, runs the handshake after a
\* success response, releases both loops and is back with its caller.
C27_StartTLSReturns ==
    \A c \in Callers :
        (op[c] = "StartTLS" /\ pc[c] = "finish") ~> (pc[c] = "idle")


\* C28: the receive loop is never stuck on the channel of a call that has
\* returned: it is not at its delivery with a packet for a message ID whose
\* Search has returned while the channel of that call is full, a send no
\* goroutine will ever receive.
C28_NoDeliveryToAbandonedChannel ==
    ~(/\ recvPc = "deliver"
      /\ recvCur.id \in returned
      /\ Len(chans[recvCur.id]) >= ChanCap)


(***************************************************************************)
(* Properties of the server's replies.                                     *)
(***************************************************************************)
\* the response tag that belongs to the operation of a request tag
OperationResponse(tag) ==
    CASE tag = ApplicationBindRequest -> ApplicationBindResponse
      [] tag = ApplicationSearchRequest -> ApplicationSearchResultDone
      [] tag = ApplicationModifyRequest -> ApplicationModifyResponse
      [] tag = ApplicationAddRequest -> ApplicationAddResponse
      [] tag = ApplicationDelRequest -> ApplicationDelResponse
      [] tag = ApplicationModifyDNRequest -> ApplicationModifyDNResponse
      [] tag = ApplicationExtendedRequest -> ApplicationExtendedResponse

\* C29: the reply serve writes when processRequest failed on a Bind, Search,
\* Modify, Add, Delete, ModifyDN or Extended request carries the message ID of
\* that request and the response tag of its operation.
C29_ErrorReplyTagAndID ==
    (/\ last.read = "request"
     /\ last.err \notin {"nil", "EOF"}
     /\ last.tag \in {ApplicationBindRequest, ApplicationSearchRequest,
                      ApplicationModifyRequest, ApplicationAddRequest,
                      ApplicationDelRequest, ApplicationModifyDNRequest,
                      ApplicationExtendedRequest})
    => \A k \in 1..Len(last.out) :
           /\ last.out[k].id = last.id
           /\ last.out[k].tag = OperationResponse(last.tag)


\* C30: when the backend answers a search with no results and the code
\* Success, the SearchResultDone that SearchResponse.WritePackets writes
\* carries the code NoSuchObject.
C30_EmptySearchSaysNoSuchObject ==
    (/\ last.read = "request"
     /\ last.backend = "Search"
     /\ last.be = "nil"
     /\ last.results = <<>>
     /\ last.code = ResultSuccess
     /\ last.err = "nil")
    => /\ last.out[Len(last.out)].tag = ApplicationSearchResultDone
       /\ last.out[Len(last.out)].code = ResultNoSuchObject

====
